---- MODULE Spec2Model ----
(***************************************************************************)
(* Hub-and-spoke cache of src/app.py: one hub thread (_hub_loop) feeding a *)
(* pool of worker threads through a queue, each worker running             *)
(* _fetch_state under the store lock _cache_lock and the in-flight set,    *)
(* and reader requests (/health, /cache/ru, /cache/p, /log) on the cache.  *)
(* Every "with _cache_lock:" block is an acquire step followed by a        *)
(* body-and-release step, so the lock's holder is part of the state.       *)
(***************************************************************************)
EXTENDS Integers, Sequences, FiniteSets, TLC

\* ---------------------------------------------------------------- bounds
NumStates == 1
MaxTime == 2
MaxPuts == 2
MaxReaderPuts == 2
NumPoolStates == 2
MaxPoolPuts == 2
MaxScenarioPuts == 3
MaxSnapshotPuts == 2
NumRoundRobinStates == 3
MaxDecoderPuts == 2
MaxBackoff == 2
MaxSlate == 3
MaxVotes == 2
MaxTotal == 3
MaxBase == 26
MaxSupCycles == 3
NumTargets == 1

VARIABLES
    MAX_CONCURRENCY,  \* the tunable of line 30, fixed at start
    nstates,          \* how many entries of ALL_STATES the run works with
    now,              \* the latest reading of the clock (time.time(), utcnow())
    cache_lock,       \* holder of _cache_lock
    log_seq,          \* _log_seq
    logq,             \* _cache["log"], a deque(maxlen)
    cache_by_combo,   \* _cache["cache_by_combo"]
    last_cycle_end,   \* _cache["last_cycle_end"]
    upstream_calls,   \* _stats["upstream_calls"]
    upstream_bytes,   \* _stats["upstream_bytes"]
    errors,           \* _stats["errors"]
    per_combo_state,  \* _stats["per_combo_state"]
    inflight,         \* _inflight
    q,                \* queue.Queue items
    unfinished,       \* queue.Queue unfinished_tasks
    snapfile,         \* content of CACHE_SNAPSHOT_PATH
    hub_pc, batch_states, hub_i, rr_states, puts, hub_data,
    wpc, witem, wlast, wt0, wresp, wparsed, wmsg, wret, wpath,
    wdec,             \* the decoder's locals: next candidate, cands, total, prev
    rpc, rkind, rsince, rresp,
    reqLast,          \* history: time of the last upstream request per key
    nraised,          \* history: number of errors raised inside workers' fetches
    wfound,           \* history: owner whose guard turned this call away
    wtries,           \* history: upstream requests issued by the worker's current call
    nresp,            \* history: upstream requests that received a response
    nrespBytes        \* history: total length of the responses received

\* the supervisor process of src/manual/app/app-reboot1.py
VARIABLES
    BACKOFF_MIN,      \* the tunables of lines 52-53, fixed at start
    BACKOFF_MAX,
    http_client,      \* which HTTP client http_get finds installed
    sup_pc,           \* position of main's loop
    backoff,          \* the global backoff
    last_restart_ts,  \* the global last_restart_ts
    peer_up, hub_up,  \* results of peer_health_ok() and hub_health_ok()
    peer_seen,        \* history: what the last peer probe met
    hub_seen,         \* history: what the last hub probe met
    hub_launches,     \* history: Popen calls of start_hub
    peer_launches,    \* history: Popen calls of start_peer_inline
    peer_pidfile,     \* content of PEER_PIDFILE (0: no file)
    waits,            \* history: the sleep(backoff) of each relaunch since the hub was last healthy
    probes,           \* history: the results of hub_health_ok(), oldest first
    sup_cycles        \* history: turns of main's loop

\* the poller thread of src/app/control-panel.py
VARIABLES
    TARGETS,          \* per target: alive, healthy, last_change, ms, last_url
    cp_pc, cp_t, cp_u,
    cp_alive, cp_healthy, cp_ms, cp_last_ok_url,   \* locals of poll_targets
    cp_seen           \* history: what the probes of the current target met

\* one call of a function of the simulators src/app/api.py and src/api/api.py
VARIABLES
    sim_pc,           \* "idle", "input" before the call, "done" after it
    sim_in,           \* the function and its arguments
    sim_out           \* what it returned

\* ------------------------------------------------- tunables of src/app.py
STATES_PER_CYCLE == 2
MIN_STATE_REFRESH_SEC == 1
LOG_MAXLEN == 2

HUB_MODE == TRUE
OFFICES == <<"P">>
RACE_TYPES == <<"G">>
\* the first nstates entries of the list of lines 44-48
ALL_STATES == SubSeq(<<"AL", "AK", "AZ", "AR">>, 1, nstates)

\* time.time() at process start: far beyond the epoch value 0.0 that stands
\* for "never fetched", i.e. at least one refresh window after it
StartTime == MIN_STATE_REFRESH_SEC

\* ------------------------------------------------------------- processes
Free == <<"free", 0>>
Hub == <<"hub", 0>>
Reader == <<"reader", 0>>
W(w) == <<"worker", w>>

\* ------------------------------------------------------- python dict helpers
EmptyDict == [x \in {} |-> x]
Get(d, k, dflt) == IF k \in DOMAIN d THEN d[k] ELSE dflt
Put(d, k, v) == [x \in (DOMAIN d) \cup {k} |-> IF x = k THEN v ELSE d[x]]
SetDefault(d, k, v) == IF k \in DOMAIN d THEN d ELSE Put(d, k, v)

Upper(s) == IF s = "p" THEN "P" ELSE s
combo_key(office, race_type) == Upper(office) \o ":" \o race_type
combo_state_key(office, race_type, usps) == Upper(office) \o ":" \o race_type \o "|" \o usps

\* ------------------------------------------------------ upstream responses
\* what requests.get can return: a status and a body; or it raises
NoResp == [status |-> 0, text |-> ""]
Responses == { [status |-> 200, text |-> "<xml1>"],
               [status |-> 200, text |-> "<bad"],
               [status |-> 503, text |-> ""] }
\* responses whose body holds VoteCount attributes that are empty or no number
GlitchResponses == { [status |-> 200, text |-> "<xml2>"],
                     [status |-> 200, text |-> "<xml3>"] }
Documents == {"<xml1>", "<xml2>", "<xml3>"}
ContentLen(r) == IF r.text \in Documents THEN 2 ELSE IF r.text = "<bad" THEN 1 ELSE 0

\* ET.fromstring raises ParseError on a malformed document
WellFormed(text) == text \in Documents

\* the Candidate elements of the document's one ReportingUnit, FIPS="1"
Candidates(text) ==
    IF text = "<xml1>" THEN << [Party |-> "REP", VoteCount |-> "1"] >>
    ELSE IF text = "<xml2>" THEN << [Party |-> "REP", VoteCount |-> "N/A"],
                                    [Party |-> "DEM", VoteCount |-> "2"] >>
    ELSE << [Party |-> "REP", VoteCount |-> ""],
            [Party |-> "DEM", VoteCount |-> "N/A"] >>
\* line 123: "1".zfill(5)
UnitFips == "00001"

\* line 130: c.attrib.get("VoteCount", "0") or "0"
raw_v(c) == IF c.VoteCount = "" THEN "0" ELSE c.VoteCount
\* line 132: int(raw_v) gives the number a literal denotes and raises
\* ValueError for any other text
IntLiterals == {"0", "1", "2"}
py_int(raw) == IF raw = "0" THEN 0 ELSE IF raw = "1" THEN 1 ELSE 2

\* variant of get_prev_vote_county that finds nothing
get_prev_vote_county_none(cbc, usps, fips, party, office, race_type) == <<>>

\* lines 202-216: the votes cached for the first candidate of that party in
\* that unit, as <<votes>>; <<>> stands for None
get_prev_vote_county(cbc, usps, fips, party, office, race_type) ==
    LET bucket == Get(cbc, combo_key(office, race_type), [states |-> EmptyDict])
        state_blob == Get(bucket.states, usps, [counties |-> EmptyDict])
        counties == state_blob.counties
    IN IF fips \notin DOMAIN counties THEN <<>>
       ELSE LET cands == counties[fips].candidates
                hits == {i \in 1..Len(cands) : cands[i].party = party}
            IN IF hits = {} THEN <<>>
               ELSE << cands[CHOOSE i \in hits : \A j \in hits : i <= j].votes >>

\* lines 125-143: the loop over the unit's candidates from the i-th on, as far
\* as int() accepts their VoteCount: it stops at the end of the list or at
\* the candidate whose VoteCount raises
RECURSIVE DecodeRun(_, _, _, _)
DecodeRun(cs, i, cands, total) ==
    IF i > Len(cs) \/ raw_v(cs[i]) \notin IntLiterals
    THEN [i |-> i, cands |-> cands, total |-> total, prev |-> <<>>]
    ELSE DecodeRun(cs, i + 1,
                   Append(cands, [party |-> cs[i].Party, votes |-> py_int(raw_v(cs[i]))]),
                   total + py_int(raw_v(cs[i])))

NoDec == [i |-> 0, cands |-> <<>>, total |-> 0, prev |-> <<>>]
NoParse == [counties |-> EmptyDict]
\* lines 144-145: out["counties"][fips] = {...} (the unit's name is left out)
Decoded(usps, d) ==
    [counties |-> (UnitFips :> [state |-> usps, fips |-> UnitFips,
                                candidates |-> d.cands, total |-> d.total])]
\* _parse_state_ru on a document whose VoteCount attributes int() accepts
parse_state_ru(text, usps) == Decoded(usps, DecodeRun(Candidates(text), 1, <<>>, 0))

storeVars == <<cache_by_combo, last_cycle_end, per_combo_state>>
statVars == <<upstream_calls, upstream_bytes, errors>>
logVars == <<log_seq, logq>>
qVars == <<q, unfinished>>
hubVars == <<hub_pc, batch_states, hub_i, rr_states, puts, hub_data>>
wLocals == <<witem, wlast, wt0, wresp, wparsed, wdec, wmsg, wret, wpath>>
readerVars == <<rpc, rkind, rsince, rresp>>
histVars == <<reqLast, nraised, wfound>>
callHist == <<wtries, nresp, nrespBytes>>

appVars == <<MAX_CONCURRENCY, nstates, now, cache_lock, log_seq, logq, cache_by_combo, last_cycle_end,
          upstream_calls, upstream_bytes, errors, per_combo_state, inflight,
          q, unfinished, snapfile,
          hub_pc, batch_states, hub_i, rr_states, puts, hub_data,
          wpc, witem, wlast, wt0, wresp, wparsed, wdec, wmsg, wret, wpath,
          rpc, rkind, rsince, rresp, reqLast, nraised, wfound,
          wtries, nresp, nrespBytes>>
supVars == <<BACKOFF_MIN, BACKOFF_MAX, http_client, sup_pc, backoff, last_restart_ts, peer_up, hub_up, peer_seen, hub_seen,
             hub_launches, peer_launches, peer_pidfile, waits, probes, sup_cycles>>
panelVars == <<TARGETS, cp_pc, cp_t, cp_u, cp_alive, cp_healthy, cp_ms, cp_last_ok_url, cp_seen>>
simVars == <<sim_pc, sim_in, sim_out>>
vars == <<appVars, supVars, panelVars, simVars>>

\* variant of NumWorkers that starts one thread more than the tunable
NumWorkersPlusOne == MAX_CONCURRENCY + 1

\* line 330: range(max(1, MAX_CONCURRENCY))
NumWorkers == IF MAX_CONCURRENCY > 1 THEN MAX_CONCURRENCY ELSE 1
Workers == 1..NumWorkers

NoItem == <<"", "", "">>
NoMsg == <<"", "", "">>
NoFile == [exists |-> FALSE]
NoData == [last_cycle_end |-> 0]

\* what CACHE_SNAPSHOT_PATH can hold when the process starts: a file that
\* open() cannot read; text that json.load rejects (an empty or cut-off dump);
\* JSON that is not an object; an object whose "_stats" is not an object; and
\* the snapshot a previous run saved after fetching AL once. json.dump and
\* json.load give back dicts with string keys, numbers and strings as they were.
Unreadable == [exists |-> TRUE, form |-> "unreadable"]
Truncated == [exists |-> TRUE, form |-> "truncated"]
NotObject == [exists |-> TRUE, form |-> "not_object"]
PrevEntry == [updated |-> StartTime, office |-> "P", counties |-> parse_state_ru("<xml1>", "AL").counties]
PrevCache == combo_key("P", "G") :> [states |-> ("AL" :> PrevEntry), updated |-> StartTime]
PrevStats ==
    [upstream_calls |-> 1, upstream_bytes |-> ContentLen([status |-> 200, text |-> "<xml1>"]),
     errors |-> 0,
     per_combo_state |-> (combo_state_key("P", "G", "AL") :> ("last_fetch" :> StartTime @@ "ok" :> 1))]
BadStats == [exists |-> TRUE, form |-> "bad_stats", cache_by_combo |-> PrevCache,
             last_cycle_end |-> StartTime]
PrevSnapshot == [exists |-> TRUE, form |-> "snapshot", cache_by_combo |-> PrevCache,
                 last_cycle_end |-> StartTime, stats |-> PrevStats]
SnapshotFiles == {NoFile, Unreadable, Truncated, NotObject, BadStats, PrevSnapshot}

\* the state once the module is loaded, with MAX_CONCURRENCY set to n,
\* ALL_STATES cut to its first k entries and CACHE_SNAPSHOT_PATH holding f
InitFrom(n, k, f) ==
    /\ MAX_CONCURRENCY = n
    /\ nstates = k
    /\ now = StartTime
    /\ cache_lock = Free
    /\ log_seq = 0
    /\ logq = <<>>
    /\ cache_by_combo = EmptyDict
    /\ last_cycle_end = 0
    /\ upstream_calls = 0
    /\ upstream_bytes = 0
    /\ errors = 0
    /\ per_combo_state = EmptyDict
    /\ inflight = {}
    /\ q = <<>>
    /\ unfinished = 0
    /\ snapfile = f
    /\ hub_pc = "start"
    /\ batch_states = <<>>
    /\ hub_i = 0
    /\ rr_states = 0
    /\ puts = 0
    /\ hub_data = NoData
    /\ wpc = [w \in Workers |-> "unstarted"]
    /\ witem = [w \in Workers |-> NoItem]
    /\ wlast = [w \in Workers |-> 0]
    /\ wt0 = [w \in Workers |-> 0]
    /\ wresp = [w \in Workers |-> NoResp]
    /\ wparsed = [w \in Workers |-> NoParse]
    /\ wdec = [w \in Workers |-> NoDec]
    /\ wmsg = [w \in Workers |-> NoMsg]
    /\ wret = [w \in Workers |-> "none"]
    /\ wpath = [w \in Workers |-> ""]
    /\ rpc = "idle"
    /\ rkind = ""
    /\ rsince = 0
    /\ rresp = <<>>
    /\ reqLast = [s \in {ALL_STATES[i] : i \in 1..Len(ALL_STATES)} |-> 0]
    /\ nraised = 0
    /\ wfound = [w \in Workers |-> 0]
    /\ wtries = [w \in Workers |-> 0]
    /\ nresp = 0
    /\ nrespBytes = 0

\* the same on a cold start: no snapshot file
InitWith(n, k) == InitFrom(n, k, NoFile)

\* a reading of the clock: any time from the latest reading on
ClockReadings == now..MaxTime

\* ----------------------------------------------------------------- log()
\* variant of LogEvent that stamps the event before the counter has moved
LogEventStale(lvl, msg, t) == [seq |-> log_seq, ts |-> t, lvl |-> lvl, msg |-> msg]

\* the body of log(): next seq, append to the bounded deque (oldest evicted)
LogEvent(lvl, msg, t) == [seq |-> log_seq + 1, ts |-> t, lvl |-> lvl, msg |-> msg]
DequeAppend(d, e) == IF Len(d) < LOG_MAXLEN THEN Append(d, e) ELSE Append(Tail(d), e)
LogAppend(lvl, msg) ==
    \E t \in ClockReadings :
        /\ now' = t
        /\ log_seq' = log_seq + 1
        /\ logq' = DequeAppend(logq, LogEvent(lvl, msg, t))

\* ------------------------------------------------------------ _fetch_state
KeyOf(w) == combo_state_key(witem[w][2], witem[w][3], witem[w][1])
ComboOf(w) == combo_key(witem[w][2], witem[w][3])

\* program points of _fetch_state between installing the guard and releasing it
OwnerPcs == {"sr", "sr_l", "sr_cmp", "request", "stat", "stat_l", "err", "err_l",
             "parse", "prev", "prev_l", "plog", "plog_l", "ensure", "ensure_l", "store", "store_l", "log", "log_l",
             "fin", "fin_l"}
Owns(w, key) == wpc[w] \in OwnerPcs /\ KeyOf(w) = key

\* every "with _cache_lock:" entered by a worker
WLockSites == {"guard", "sr", "stat", "err", "prev", "plog", "ensure", "store", "log", "fin"}

\* worker: item = q.get()
WGet(w) ==
    /\ wpc[w] = "get"
    /\ q # <<>>
    /\ witem' = [witem EXCEPT ![w] = Head(q)]
    /\ q' = Tail(q)
    /\ wret' = [wret EXCEPT ![w] = "none"]
    /\ wpath' = [wpath EXCEPT ![w] = ""]
    /\ wfound' = [x \in Workers |-> IF x = w \/ wfound[x] = w THEN 0 ELSE wfound[x]]
    /\ wtries' = [wtries EXCEPT ![w] = 0]
    /\ wpc' = [wpc EXCEPT ![w] = "guard"]
    /\ UNCHANGED <<nresp, nrespBytes, now, cache_lock, logVars, storeVars, statVars, inflight, unfinished,
                   snapfile, hubVars, wlast, wt0, wresp, wparsed, wdec, wmsg, readerVars,
                   reqLast, nraised>>

\* worker: _cache_lock.acquire() at any of its locked sections
WAcquire(w) ==
    /\ wpc[w] \in WLockSites
    /\ cache_lock = Free
    /\ cache_lock' = W(w)
    /\ wpc' = [wpc EXCEPT ![w] = wpc[w] \o "_l"]
    /\ UNCHANGED <<callHist, now, logVars, storeVars, statVars, inflight, qVars, snapfile,
                   hubVars, wLocals, readerVars, histVars>>

\* variant of WGuard without the membership test of line 239
WGuardNoCheck(w) ==
    /\ wpc[w] = "guard_l"
    /\ cache_lock' = Free
    /\ inflight' = inflight \cup {KeyOf(w)}
    /\ wpc' = [wpc EXCEPT ![w] = "sr"]
    /\ UNCHANGED <<callHist, now, logVars, storeVars, statVars, qVars, snapfile, hubVars,
                   wLocals, readerVars, histVars>>

\* variant of WGuard whose early return of line 239 runs the discard of
\* line 305, as if the check were inside the try block
WGuardBusyDiscard(w) ==
    /\ wpc[w] = "guard_l"
    /\ cache_lock' = Free
    /\ IF KeyOf(w) \in inflight
       THEN /\ wret' = [wret EXCEPT ![w] = "False"]
            /\ wpath' = [wpath EXCEPT ![w] = "busy"]
            /\ wfound' = [wfound EXCEPT ![w] = CHOOSE x \in Workers : Owns(x, KeyOf(w))]
            /\ wpc' = [wpc EXCEPT ![w] = "task_done"]
            /\ inflight' = inflight \ {KeyOf(w)}
       ELSE /\ inflight' = inflight \cup {KeyOf(w)}
            /\ wpc' = [wpc EXCEPT ![w] = "sr"]
            /\ UNCHANGED <<wret, wpath, wfound>>
    /\ UNCHANGED <<callHist, now, logVars, storeVars, statVars, qVars, snapfile, hubVars,
                   witem, wlast, wt0, wresp, wparsed, wdec, wmsg, readerVars,
                   reqLast, nraised>>

\* variant of WGuard whose early return of line 239 is True
WGuardBusyTrue(w) ==
    /\ wpc[w] = "guard_l"
    /\ cache_lock' = Free
    /\ IF KeyOf(w) \in inflight
       THEN /\ wret' = [wret EXCEPT ![w] = "True"]
            /\ wpath' = [wpath EXCEPT ![w] = "busy"]
            /\ wfound' = [wfound EXCEPT ![w] = CHOOSE x \in Workers : Owns(x, KeyOf(w))]
            /\ wpc' = [wpc EXCEPT ![w] = "task_done"]
            /\ UNCHANGED inflight
       ELSE /\ inflight' = inflight \cup {KeyOf(w)}
            /\ wpc' = [wpc EXCEPT ![w] = "sr"]
            /\ UNCHANGED <<wret, wpath, wfound>>
    /\ UNCHANGED <<callHist, now, logVars, storeVars, statVars, qVars, snapfile, hubVars,
                   witem, wlast, wt0, wresp, wparsed, wdec, wmsg, readerVars,
                   reqLast, nraised>>

\* lines 238-240: check-or-become-owner
WGuard(w) ==
    /\ wpc[w] = "guard_l"
    /\ cache_lock' = Free
    /\ IF KeyOf(w) \in inflight
       THEN /\ wret' = [wret EXCEPT ![w] = "False"]
            /\ wpath' = [wpath EXCEPT ![w] = "busy"]
            /\ wfound' = [wfound EXCEPT ![w] = CHOOSE x \in Workers : Owns(x, KeyOf(w))]
            /\ wpc' = [wpc EXCEPT ![w] = "task_done"]
            /\ UNCHANGED inflight
       ELSE /\ inflight' = inflight \cup {KeyOf(w)}
            /\ wpc' = [wpc EXCEPT ![w] = "sr"]
            /\ UNCHANGED <<wret, wpath, wfound>>
    /\ UNCHANGED <<callHist, now, logVars, storeVars, statVars, qVars, snapfile, hubVars,
                   witem, wlast, wt0, wresp, wparsed, wdec, wmsg, readerVars,
                   reqLast, nraised>>

\* variant of WShouldRefetchRead that leaves its locked section without
\* releasing the lock
WShouldRefetchReadHold(w) ==
    /\ wpc[w] = "sr_l"
    /\ wlast' = [wlast EXCEPT ![w] =
                    Get(Get(per_combo_state, KeyOf(w), EmptyDict), "last_fetch", 0)]
    /\ wpc' = [wpc EXCEPT ![w] = "sr_cmp"]
    /\ UNCHANGED <<callHist, now, cache_lock, logVars, storeVars, statVars, inflight, qVars, snapfile,
                   hubVars, witem, wt0, wresp, wparsed, wdec, wmsg, wret, wpath, readerVars,
                   histVars>>

\* lines 197-198: _should_refetch reads last_fetch under the lock
WShouldRefetchRead(w) ==
    /\ wpc[w] = "sr_l"
    /\ cache_lock' = Free
    /\ wlast' = [wlast EXCEPT ![w] =
                    Get(Get(per_combo_state, KeyOf(w), EmptyDict), "last_fetch", 0)]
    /\ wpc' = [wpc EXCEPT ![w] = "sr_cmp"]
    /\ UNCHANGED <<callHist, now, logVars, storeVars, statVars, inflight, qVars, snapfile, hubVars,
                   witem, wt0, wresp, wparsed, wdec, wmsg, wret, wpath, readerVars, histVars>>

\* variant of should_refetch with a strict comparison
should_refetch_strict(t, last) == (t - last) > MIN_STATE_REFRESH_SEC

should_refetch(t, last) == (t - last) >= MIN_STATE_REFRESH_SEC

\* lines 199, 242-247: the cooldown decision; t0 is taken and the request issued
WShouldRefetch(w) ==
    /\ wpc[w] = "sr_cmp"
    /\ \E t \in ClockReadings :
        /\ now' = t
        /\ IF should_refetch(t, wlast[w])
           THEN /\ wt0' = [wt0 EXCEPT ![w] = t]
                /\ reqLast' = [reqLast EXCEPT ![witem[w][1]] = t]
                /\ wtries' = [wtries EXCEPT ![w] = wtries[w] + 1]
                /\ wpc' = [wpc EXCEPT ![w] = "request"]
                /\ UNCHANGED <<wmsg, wret, wpath>>
           ELSE /\ wmsg' = [wmsg EXCEPT ![w] = <<"INFO", "Skip", KeyOf(w)>>]
                /\ wret' = [wret EXCEPT ![w] = "True"]
                /\ wpath' = [wpath EXCEPT ![w] = "skip"]
                /\ wpc' = [wpc EXCEPT ![w] = "log"]
                /\ UNCHANGED <<wt0, reqLast, wtries>>
    /\ UNCHANGED <<nresp, nrespBytes, cache_lock, logVars, storeVars, statVars, inflight, qVars, snapfile,
                   hubVars, witem, wlast, wresp, wparsed, wdec, readerVars, nraised, wfound>>

\* line 249: requests.get returns a response ...
WResponse(w) ==
    /\ wpc[w] = "request"
    /\ \E r \in Responses :
          /\ wresp' = [wresp EXCEPT ![w] = r]
          /\ nresp' = nresp + 1
          /\ nrespBytes' = nrespBytes + ContentLen(r)
    /\ wpc' = [wpc EXCEPT ![w] = "stat"]
    /\ UNCHANGED <<wtries, now, cache_lock, logVars, storeVars, statVars, inflight, qVars, snapfile,
                   hubVars, witem, wlast, wt0, wparsed, wdec, wmsg, wret, wpath, readerVars,
                   histVars>>

\* line 249: requests.get returns a 200 whose body holds a VoteCount that
\* int() rejects or an empty one
WGlitchResponse(w) ==
    /\ wpc[w] = "request"
    /\ \E r \in GlitchResponses :
          /\ wresp' = [wresp EXCEPT ![w] = r]
          /\ nresp' = nresp + 1
          /\ nrespBytes' = nrespBytes + ContentLen(r)
    /\ wpc' = [wpc EXCEPT ![w] = "stat"]
    /\ UNCHANGED <<wtries, now, cache_lock, logVars, storeVars, statVars, inflight, qVars, snapfile,
                   hubVars, witem, wlast, wt0, wparsed, wdec, wmsg, wret, wpath, readerVars,
                   histVars>>

\* variant of WTransportError in which the call repeats requests.get, up to
\* three requests in all, before it gives up
WTransportErrorRetry(w) ==
    /\ wpc[w] = "request"
    /\ IF wtries[w] < 3
       THEN /\ wtries' = [wtries EXCEPT ![w] = wtries[w] + 1]
            /\ UNCHANGED <<wpath, nraised, wpc>>
       ELSE /\ wpath' = [wpath EXCEPT ![w] = "transport"]
            /\ nraised' = nraised + 1
            /\ wpc' = [wpc EXCEPT ![w] = "err"]
            /\ UNCHANGED wtries
    /\ UNCHANGED <<nresp, nrespBytes, now, cache_lock, logVars, storeVars, statVars, inflight,
                   qVars, snapfile, hubVars, witem, wlast, wt0, wresp, wparsed, wdec, wmsg, wret,
                   readerVars, reqLast, wfound>>

\* ... or raises (timeout, connection error): line 253
WTransportError(w) ==
    /\ wpc[w] = "request"
    /\ wpath' = [wpath EXCEPT ![w] = "transport"]
    /\ nraised' = nraised + 1
    /\ wpc' = [wpc EXCEPT ![w] = "err"]
    /\ UNCHANGED <<callHist, now, cache_lock, logVars, storeVars, statVars, inflight, qVars, snapfile,
                   hubVars, witem, wlast, wt0, wresp, wparsed, wdec, wmsg, wret, readerVars,
                   reqLast, wfound>>

\* variant of WStat that counts a response only when its status is 200
WStatOkOnly(w) ==
    /\ wpc[w] = "stat_l"
    /\ cache_lock' = Free
    /\ IF wresp[w].status # 200
       THEN /\ wpath' = [wpath EXCEPT ![w] = "http"]
            /\ nraised' = nraised + 1
            /\ wpc' = [wpc EXCEPT ![w] = "err"]
            /\ UNCHANGED <<upstream_calls, upstream_bytes>>
       ELSE /\ upstream_calls' = upstream_calls + 1
            /\ upstream_bytes' = upstream_bytes + ContentLen(wresp[w])
            /\ wpc' = [wpc EXCEPT ![w] = "parse"]
            /\ UNCHANGED <<wpath, nraised>>
    /\ UNCHANGED <<callHist, now, logVars, storeVars, errors, inflight, qVars, snapfile, hubVars,
                   witem, wlast, wt0, wresp, wparsed, wdec, wmsg, wret, readerVars,
                   reqLast, wfound>>

\* lines 250-252 and the status test of line 262
WStat(w) ==
    /\ wpc[w] = "stat_l"
    /\ cache_lock' = Free
    /\ upstream_calls' = upstream_calls + 1
    /\ upstream_bytes' = upstream_bytes + ContentLen(wresp[w])
    /\ IF wresp[w].status # 200
       THEN /\ wpath' = [wpath EXCEPT ![w] = "http"]
            /\ nraised' = nraised + 1
            /\ wpc' = [wpc EXCEPT ![w] = "err"]
       ELSE /\ wpc' = [wpc EXCEPT ![w] = "parse"]
            /\ UNCHANGED <<wpath, nraised>>
    /\ UNCHANGED <<callHist, now, logVars, storeVars, errors, inflight, qVars, snapfile, hubVars,
                   witem, wlast, wt0, wresp, wparsed, wdec, wmsg, wret, readerVars,
                   reqLast, wfound>>

\* variant of IncErr that leaves the key's err count as it is
IncErrGlobalOnly(pcs, pk) ==
    Put(pcs, pk, SetDefault(SetDefault(pcs, pk, EmptyDict)[pk], "err", 0))

\* variant of IncErr that starts the key's record afresh on a failure
IncErrDropOk(pcs, pk) ==
    Put(pcs, pk, ("err" :> (Get(Get(pcs, pk, EmptyDict), "err", 0) + 1)))

IncErr(pcs, pk) ==
    LET d == SetDefault(SetDefault(pcs, pk, EmptyDict)[pk], "err", 0)
    IN Put(pcs, pk, Put(d, "err", d["err"] + 1))

\* variant of WRecordFailure that also drops the key's cached entry
WRecordFailureDropEntry(w) ==
    /\ wpc[w] = "err_l"
    /\ cache_lock' = Free
    /\ errors' = errors + 1
    /\ per_combo_state' = IncErr(per_combo_state, KeyOf(w))
    /\ cache_by_combo' =
          [c \in DOMAIN cache_by_combo |->
              IF c = ComboOf(w)
              THEN [cache_by_combo[c] EXCEPT
                       !.states = [u \in (DOMAIN cache_by_combo[c].states) \ {witem[w][1]} |->
                                      cache_by_combo[c].states[u]]]
              ELSE cache_by_combo[c]]
    /\ wmsg' = [wmsg EXCEPT ![w] =
                   <<"WARN", IF wpath[w] = "http" THEN "HTTP" ELSE "Transport error", KeyOf(w)>>]
    /\ wret' = [wret EXCEPT ![w] = "False"]
    /\ wpc' = [wpc EXCEPT ![w] = "log"]
    /\ UNCHANGED <<callHist, now, logVars, last_cycle_end, upstream_calls,
                   upstream_bytes, inflight, qVars, snapfile, hubVars,
                   witem, wlast, wt0, wresp, wparsed, wdec, wpath, readerVars, histVars>>

\* lines 254-260 and 263-269: record the failure
WRecordFailure(w) ==
    /\ wpc[w] = "err_l"
    /\ cache_lock' = Free
    /\ errors' = errors + 1
    /\ per_combo_state' = IncErr(per_combo_state, KeyOf(w))
    /\ wmsg' = [wmsg EXCEPT ![w] =
                   <<"WARN", IF wpath[w] = "http" THEN "HTTP" ELSE "Transport error", KeyOf(w)>>]
    /\ wret' = [wret EXCEPT ![w] = "False"]
    /\ wpc' = [wpc EXCEPT ![w] = "log"]
    /\ UNCHANGED <<callHist, now, logVars, cache_by_combo, last_cycle_end, upstream_calls,
                   upstream_bytes, inflight, qVars, snapfile, hubVars,
                   witem, wlast, wt0, wresp, wparsed, wdec, wpath, readerVars, histVars>>

\* the decoder has gone through the candidates up to d.i: it returns, or it
\* is at the except clause of line 133 for candidate d.i
WDecoded(w, d) ==
    IF d.i > Len(Candidates(wresp[w].text))
    THEN /\ wparsed' = [wparsed EXCEPT ![w] = Decoded(witem[w][1], d)]
         /\ wdec' = [wdec EXCEPT ![w] = NoDec]
         /\ wpc' = [wpc EXCEPT ![w] = "ensure"]
    ELSE /\ wdec' = [wdec EXCEPT ![w] = d]
         /\ wpc' = [wpc EXCEPT ![w] = "prev"]
         /\ UNCHANGED wparsed

\* lines 272-275: the decoder; ET.fromstring raises on a malformed body and
\* nothing in _fetch_state catches it: control goes to the finally block
WParse(w) ==
    /\ wpc[w] = "parse"
    /\ IF WellFormed(wresp[w].text)
       THEN /\ WDecoded(w, DecodeRun(Candidates(wresp[w].text), 1, <<>>, 0))
            /\ UNCHANGED <<wret, wpath, nraised>>
       ELSE /\ wret' = [wret EXCEPT ![w] = "raise"]
            /\ wpath' = [wpath EXCEPT ![w] = "malformed"]
            /\ nraised' = nraised + 1
            /\ wpc' = [wpc EXCEPT ![w] = "fin"]
            /\ UNCHANGED <<wparsed, wdec>>
    /\ UNCHANGED <<callHist, now, cache_lock, logVars, storeVars, statVars, inflight, qVars, snapfile,
                   hubVars, witem, wlast, wt0, wresp, wmsg, readerVars,
                   reqLast, wfound>>

\* line 134: _get_prev_vote_county(...) under the lock
WPrevVote(w) ==
    /\ wpc[w] = "prev_l"
    /\ cache_lock' = Free
    /\ wdec' = [wdec EXCEPT ![w].prev =
                   get_prev_vote_county(cache_by_combo, witem[w][1], UnitFips,
                                        Candidates(wresp[w].text)[wdec[w].i].Party,
                                        witem[w][2], witem[w][3])]
    /\ wpc' = [wpc EXCEPT ![w] = "plog"]
    /\ UNCHANGED <<callHist, now, logVars, storeVars, statVars, inflight, qVars, snapfile, hubVars,
                   witem, wlast, wt0, wresp, wparsed, wmsg, wret, wpath, readerVars, histVars>>

\* lines 135-143: votes = prev, or 0 when prev is None; the WARN line; then
\* total += votes, cands.append(...) and the loop goes on
WDecoderLog(w) ==
    /\ wpc[w] = "plog_l"
    /\ cache_lock' = Free
    /\ LogAppend("WARN", <<"Non-numeric VoteCount", witem[w][1]>>)
    /\ LET cs == Candidates(wresp[w].text)
           d == wdec[w]
           votes == IF d.prev # <<>> THEN d.prev[1] ELSE 0
       IN WDecoded(w, DecodeRun(cs, d.i + 1,
                                Append(d.cands, [party |-> cs[d.i].Party, votes |-> votes]),
                                d.total + votes))
    /\ UNCHANGED <<callHist, storeVars, statVars, inflight, qVars, snapfile, hubVars,
                   witem, wlast, wt0, wresp, wmsg, wret, wpath, readerVars, histVars>>

\* the decoder's steps for a VoteCount that int() rejects
DecoderStep(w) == WGlitchResponse(w) \/ WPrevVote(w) \/ WDecoderLog(w)

\* variant of WEnsureComboBucket called from inside the locked section of
\* lines 279-297: control reaches the "with" of line 279 with the lock held
WEnsureComboBucketInside(w) ==
    /\ wpc[w] = "ensure_l"
    /\ cache_by_combo' = SetDefault(cache_by_combo, ComboOf(w),
                                    [states |-> EmptyDict, updated |-> 0])
    /\ wpc' = [wpc EXCEPT ![w] = "store"]
    /\ UNCHANGED <<callHist, now, cache_lock, logVars, last_cycle_end, per_combo_state, statVars,
                   inflight, qVars, snapfile, hubVars, wLocals, readerVars, histVars>>

\* lines 191-194
WEnsureComboBucket(w) ==
    /\ wpc[w] = "ensure_l"
    /\ cache_lock' = Free
    /\ cache_by_combo' = SetDefault(cache_by_combo, ComboOf(w),
                                    [states |-> EmptyDict, updated |-> 0])
    /\ wpc' = [wpc EXCEPT ![w] = "store"]
    /\ UNCHANGED <<callHist, now, logVars, last_cycle_end, per_combo_state, statVars, inflight, qVars,
                   snapfile, hubVars, wLocals, readerVars, histVars>>

Publish(cbc, combo, usps, office, parsed, t) ==
    Put(cbc, combo,
        [states |-> Put(cbc[combo].states, usps,
                        [updated |-> t, office |-> Upper(office),
                         counties |-> parsed.counties]),
         updated |-> t])

\* variant of MarkOk that counts the success without stamping last_fetch
MarkOkNoStamp(pcs, pk, t) ==
    LET ps == SetDefault(pcs, pk, EmptyDict)[pk]
    IN Put(pcs, pk, Put(ps, "ok", Get(ps, "ok", 0) + 1))

MarkOk(pcs, pk, t) ==
    LET ps == SetDefault(pcs, pk, EmptyDict)[pk]
    IN Put(pcs, pk, Put(Put(ps, "last_fetch", t), "ok", Get(ps, "ok", 0) + 1))

\* variant of WStore whose locked section writes the entry and leaves the
\* key's stats to a later section
WStoreEntryOnly(w) ==
    /\ wpc[w] = "store_l"
    /\ ComboOf(w) \in DOMAIN cache_by_combo
    /\ cache_lock' = Free
    /\ \E t \in ClockReadings :
        /\ now' = t
        /\ cache_by_combo' = Publish(cache_by_combo, ComboOf(w), witem[w][1], witem[w][2],
                                     wparsed[w], t)
    /\ wmsg' = [wmsg EXCEPT ![w] = <<"INFO", "Fetched", KeyOf(w)>>]
    /\ wret' = [wret EXCEPT ![w] = "True"]
    /\ wpath' = [wpath EXCEPT ![w] = "ok"]
    /\ wpc' = [wpc EXCEPT ![w] = "log"]
    /\ UNCHANGED <<callHist, logVars, last_cycle_end, per_combo_state, statVars, inflight,
                   qVars, snapfile, hubVars, witem, wlast, wt0, wresp, wparsed, wdec, readerVars,
                   histVars>>

\* lines 279-297: publish the entry and the key's stats in one locked section
WStore(w) ==
    /\ wpc[w] = "store_l"
    /\ ComboOf(w) \in DOMAIN cache_by_combo
    /\ cache_lock' = Free
    /\ \E t \in ClockReadings :
        /\ now' = t
        /\ cache_by_combo' = Publish(cache_by_combo, ComboOf(w), witem[w][1], witem[w][2],
                                     wparsed[w], t)
        /\ per_combo_state' = MarkOk(per_combo_state, KeyOf(w), t)
    /\ wmsg' = [wmsg EXCEPT ![w] = <<"INFO", "Fetched", KeyOf(w)>>]
    /\ wret' = [wret EXCEPT ![w] = "True"]
    /\ wpath' = [wpath EXCEPT ![w] = "ok"]
    /\ wpc' = [wpc EXCEPT ![w] = "log"]
    /\ UNCHANGED <<callHist, logVars, last_cycle_end, statVars, inflight, qVars, snapfile,
                   hubVars, witem, wlast, wt0, wresp, wparsed, wdec, readerVars, histVars>>

\* the log(...) call that ends the skip, failure and success paths
WLog(w) ==
    /\ wpc[w] = "log_l"
    /\ cache_lock' = Free
    /\ LogAppend(wmsg[w][1], <<wmsg[w][2], wmsg[w][3]>>)
    /\ wmsg' = [wmsg EXCEPT ![w] = NoMsg]
    /\ wpc' = [wpc EXCEPT ![w] = "fin"]
    /\ UNCHANGED <<callHist, storeVars, statVars, inflight, qVars, snapfile, hubVars,
                   witem, wlast, wt0, wresp, wparsed, wdec, wret, wpath, readerVars, histVars>>

\* variant of WFinally that releases the guard on the return paths only, as
\* if the discard were not in a finally block
WFinallyReturnOnly(w) ==
    /\ wpc[w] = "fin_l"
    /\ cache_lock' = Free
    /\ inflight' = IF wret[w] = "raise" THEN inflight ELSE inflight \ {KeyOf(w)}
    /\ wlast' = [wlast EXCEPT ![w] = 0]
    /\ wt0' = [wt0 EXCEPT ![w] = 0]
    /\ wresp' = [wresp EXCEPT ![w] = NoResp]
    /\ wparsed' = [wparsed EXCEPT ![w] = NoParse]
    /\ wpc' = [wpc EXCEPT ![w] = "task_done"]
    /\ UNCHANGED <<callHist, now, logVars, storeVars, statVars, qVars, snapfile, hubVars,
                   witem, wdec, wmsg, wret, wpath, readerVars, histVars>>

\* lines 303-305: finally, release the guard
WFinally(w) ==
    /\ wpc[w] = "fin_l"
    /\ cache_lock' = Free
    /\ inflight' = inflight \ {KeyOf(w)}
    /\ wlast' = [wlast EXCEPT ![w] = 0]
    /\ wt0' = [wt0 EXCEPT ![w] = 0]
    /\ wresp' = [wresp EXCEPT ![w] = NoResp]
    /\ wparsed' = [wparsed EXCEPT ![w] = NoParse]
    /\ wpc' = [wpc EXCEPT ![w] = "task_done"]
    /\ UNCHANGED <<callHist, now, logVars, storeVars, statVars, qVars, snapfile, hubVars,
                   witem, wdec, wmsg, wret, wpath, readerVars, histVars>>

\* lines 326-328: the worker's finally: q.task_done(), time.sleep, then the
\* loop goes on; an exception that reached the worker's try/finally has no
\* handler there and ends the thread after the sleep
WTaskDone(w) ==
    /\ wpc[w] = "task_done"
    /\ unfinished' = unfinished - 1
    /\ wpc' = [wpc EXCEPT ![w] = IF wret[w] = "raise" THEN "dead" ELSE "get"]
    /\ UNCHANGED <<callHist, now, cache_lock, logVars, storeVars, statVars, inflight, q, snapfile,
                   hubVars, wLocals, readerVars, histVars>>

WorkerStep(w) ==
    \/ WGet(w) \/ WAcquire(w) \/ WGuard(w) \/ WShouldRefetchRead(w) \/ WShouldRefetch(w)
    \/ WResponse(w) \/ WTransportError(w) \/ WStat(w) \/ WRecordFailure(w) \/ WParse(w)
    \/ WEnsureComboBucket(w) \/ WStore(w) \/ WLog(w) \/ WFinally(w) \/ WTaskDone(w)

\* ---------------------------------------------------------------- _hub_loop
HubLockSites == {"start", "load_apply", "load_log", "load_warn",
                 "cycle_log", "lce", "save", "save_log", "end_log"}

\* the hub thread's _cache_lock.acquire(): its log(...) calls, line 340 and
\* the locked sections of _snapshot_save and _snapshot_load
HubAcquire ==
    /\ HUB_MODE
    /\ hub_pc \in HubLockSites
    /\ cache_lock = Free
    /\ cache_lock' = Hub
    /\ hub_pc' = hub_pc \o "_l"
    /\ UNCHANGED <<callHist, now, logVars, storeVars, statVars, inflight, qVars, snapfile,
                   batch_states, hub_i, rr_states, puts, hub_data,
                   wpc, wLocals, readerVars, histVars>>

HubMsg(pc) ==
    IF pc = "start_l" THEN <<"Hub poller starting...", "">>
    ELSE IF pc = "load_log_l" THEN <<"Loaded snapshot", "">>
    ELSE IF pc = "load_warn_l" THEN <<"Snapshot load error", "">>
    ELSE IF pc = "cycle_log_l" THEN <<"Cycle start", "">>
    ELSE IF pc = "save_log_l" THEN <<"Saved snapshot", "">>
    ELSE <<"Cycle end", "">>
HubLvl(pc) == IF pc = "load_warn_l" THEN "WARN" ELSE "INFO"
HubAfterLog(pc) ==
    IF pc = "start_l" THEN "load"
    ELSE IF pc \in {"load_log_l", "load_warn_l"} THEN "spawn"
    ELSE IF pc = "cycle_log_l" THEN "put"
    ELSE IF pc = "save_log_l" THEN "end_log"
    ELSE "cycle_sleep"

\* lines 308, 100, 102, 335, 86, 342: the hub's log(...) calls
HubLog ==
    /\ hub_pc \in {"start_l", "load_log_l", "load_warn_l", "cycle_log_l", "save_log_l",
                   "end_log_l"}
    /\ cache_lock' = Free
    /\ LogAppend(HubLvl(hub_pc), HubMsg(hub_pc))
    /\ hub_pc' = HubAfterLog(hub_pc)
    /\ UNCHANGED <<callHist, storeVars, statVars, inflight, qVars, snapfile,
                   batch_states, hub_i, rr_states, puts, hub_data,
                   wpc, wLocals, readerVars, histVars>>

\* lines 90-102 on a cold start: no snapshot file, nothing is loaded or logged
HubSnapshotLoad ==
    /\ hub_pc = "load"
    /\ ~snapfile.exists
    /\ hub_pc' = "spawn"
    /\ UNCHANGED <<callHist, now, cache_lock, logVars, storeVars, statVars, inflight, qVars, snapfile,
                   batch_states, hub_i, rr_states, puts, hub_data,
                   wpc, wLocals, readerVars, histVars>>

\* lines 92-93 with a file present: open() or json.load raises and the
\* handler of line 101 takes over, or data holds the decoded content
HubSnapshotRead ==
    /\ hub_pc = "load"
    /\ snapfile.exists
    /\ IF snapfile.form \in {"unreadable", "truncated"}
       THEN /\ hub_pc' = "load_warn"
            /\ UNCHANGED hub_data
       ELSE /\ hub_data' = snapfile
            /\ hub_pc' = "load_apply"
    /\ UNCHANGED <<callHist, now, cache_lock, logVars, storeVars, statVars, inflight, qVars, snapfile,
                   batch_states, hub_i, rr_states, puts,
                   wpc, wLocals, readerVars, histVars>>

\* lines 94-99: the assignments under the lock, in their order. data.get
\* raises AttributeError when data is not a dict, before anything is
\* assigned; .items() raises it when "_stats" is not a dict, after the cache
\* and last_cycle_end have been assigned. The with block releases the lock
\* and the handler of line 101 takes over.
HubSnapshotApply ==
    /\ hub_pc = "load_apply_l"
    /\ cache_lock' = Free
    /\ IF hub_data.form = "not_object"
       THEN /\ hub_pc' = "load_warn"
            /\ UNCHANGED <<storeVars, statVars>>
       ELSE /\ cache_by_combo' = hub_data.cache_by_combo
            /\ last_cycle_end' = hub_data.last_cycle_end
            /\ IF hub_data.form = "bad_stats"
               THEN /\ hub_pc' = "load_warn"
                    /\ UNCHANGED <<per_combo_state, statVars>>
               ELSE /\ upstream_calls' = hub_data.stats.upstream_calls
                    /\ upstream_bytes' = hub_data.stats.upstream_bytes
                    /\ errors' = hub_data.stats.errors
                    /\ per_combo_state' = hub_data.stats.per_combo_state
                    /\ hub_pc' = "load_log"
    /\ hub_data' = NoData
    /\ UNCHANGED <<callHist, now, logVars, inflight, qVars, snapfile,
                   batch_states, hub_i, rr_states, puts,
                   wpc, wLocals, readerVars, histVars>>

\* _snapshot_load with a snapshot file present at startup
HubLoadStep == HubSnapshotRead \/ HubSnapshotApply

\* lines 330-331: start max(1, MAX_CONCURRENCY) worker threads
HubSpawn ==
    /\ hub_pc = "spawn"
    /\ wpc' = [w \in Workers |-> "get"]
    /\ hub_pc' = "cycle"
    /\ UNCHANGED <<callHist, now, cache_lock, logVars, storeVars, statVars, inflight, qVars, snapfile,
                   batch_states, hub_i, rr_states, puts, hub_data,
                   wLocals, readerVars, histVars>>

\* variant of NextBatch that starts every batch at the head of ALL_STATES
NextBatchFromHead(pos) == [i \in 1..STATES_PER_CYCLE |-> ALL_STATES[((i - 1) % Len(ALL_STATES)) + 1]]

\* line 334: the next STATES_PER_CYCLE states of itertools.cycle(ALL_STATES)
NextBatch(pos) == [i \in 1..STATES_PER_CYCLE |-> ALL_STATES[((pos + i - 1) % Len(ALL_STATES)) + 1]]

HubCycleStart ==
    /\ hub_pc = "cycle"
    /\ batch_states' = NextBatch(rr_states)
    /\ rr_states' = (rr_states + STATES_PER_CYCLE) % Len(ALL_STATES)
    /\ hub_i' = 0
    /\ hub_pc' = "cycle_log"
    /\ UNCHANGED <<callHist, now, cache_lock, logVars, storeVars, statVars, inflight, qVars, snapfile,
                   puts, hub_data, wpc, wLocals, readerVars, histVars>>

\* lines 336-338: q.put of one item of the batch (the only combo is P:G)
HubPut(maxp) ==
    /\ hub_pc = "put"
    /\ hub_i < Len(batch_states)
    /\ puts < maxp
    /\ puts' = puts + 1
    /\ q' = Append(q, <<batch_states[hub_i + 1], OFFICES[1], RACE_TYPES[1]>>)
    /\ unfinished' = unfinished + 1
    /\ hub_i' = hub_i + 1
    /\ hub_pc' = IF hub_i + 1 = Len(batch_states) THEN "join" ELSE "put"
    /\ UNCHANGED <<callHist, now, cache_lock, logVars, storeVars, statVars, inflight, snapfile,
                   batch_states, rr_states, hub_data,
                   wpc, wLocals, readerVars, histVars>>

\* variant of HubJoin that returns as soon as the queue is empty, without
\* waiting for the items taken from it to be marked done
HubJoinQueueEmpty ==
    /\ hub_pc = "join"
    /\ q = <<>>
    /\ hub_pc' = "lce"
    /\ UNCHANGED <<callHist, now, cache_lock, logVars, storeVars, statVars, inflight, qVars, snapfile,
                   batch_states, hub_i, rr_states, puts, hub_data,
                   wpc, wLocals, readerVars, histVars>>

\* line 339: q.join() returns when every put item has been marked done
HubJoin ==
    /\ hub_pc = "join"
    /\ unfinished = 0
    /\ hub_pc' = "lce"
    /\ UNCHANGED <<callHist, now, cache_lock, logVars, storeVars, statVars, inflight, qVars, snapfile,
                   batch_states, hub_i, rr_states, puts, hub_data,
                   wpc, wLocals, readerVars, histVars>>

\* line 340
HubLastCycleEnd ==
    /\ hub_pc = "lce_l"
    /\ cache_lock' = Free
    /\ \E t \in ClockReadings : now' = t /\ last_cycle_end' = t
    /\ hub_pc' = "save"
    /\ UNCHANGED <<callHist, logVars, cache_by_combo, per_combo_state, statVars, inflight, qVars,
                   snapfile, batch_states, hub_i, rr_states, puts, hub_data,
                   wpc, wLocals, readerVars, histVars>>

\* lines 79-84: the dict built under the lock holds the value of
\* last_cycle_end and references to the live cache and stats dicts
HubSnapshotData ==
    /\ hub_pc = "save_l"
    /\ cache_lock' = Free
    /\ hub_data' = [last_cycle_end |-> last_cycle_end]
    /\ hub_pc' = "open"
    /\ UNCHANGED <<callHist, now, logVars, storeVars, statVars, inflight, qVars, snapfile,
                   batch_states, hub_i, rr_states, puts, wpc, wLocals, readerVars, histVars>>

StatsDict == [upstream_calls |-> upstream_calls, upstream_bytes |-> upstream_bytes,
              errors |-> errors, per_combo_state |-> per_combo_state]

\* line 85: open(CACHE_SNAPSHOT_PATH, "w") creates the file or cuts the
\* existing one to length 0
HubSnapshotOpen ==
    /\ hub_pc = "open"
    /\ snapfile' = Truncated
    /\ hub_pc' = "dump"
    /\ UNCHANGED <<callHist, now, cache_lock, logVars, storeVars, statVars, inflight, qVars,
                   batch_states, hub_i, rr_states, puts, hub_data,
                   wpc, wLocals, readerVars, histVars>>

\* line 85: json.dump serialises the live dicts outside the lock
HubSnapshotDump ==
    /\ hub_pc = "dump"
    /\ snapfile' = [exists |-> TRUE, form |-> "snapshot", cache_by_combo |-> cache_by_combo,
                    last_cycle_end |-> hub_data.last_cycle_end, stats |-> StatsDict]
    /\ hub_data' = NoData
    /\ hub_pc' = "save_log"
    /\ UNCHANGED <<callHist, now, cache_lock, logVars, storeVars, statVars, inflight, qVars,
                   batch_states, hub_i, rr_states, puts, wpc, wLocals, readerVars, histVars>>

\* line 343
HubSleep ==
    /\ hub_pc = "cycle_sleep"
    /\ hub_pc' = "cycle"
    /\ UNCHANGED <<callHist, now, cache_lock, logVars, storeVars, statVars, inflight, qVars, snapfile,
                   batch_states, hub_i, rr_states, puts, hub_data,
                   wpc, wLocals, readerVars, histVars>>

HubStep(maxp) ==
    \/ HubAcquire \/ HubLog \/ HubSnapshotLoad \/ HubSpawn \/ HubCycleStart \/ HubPut(maxp)
    \/ HubJoin \/ HubLastCycleEnd \/ HubSnapshotData \/ HubSnapshotOpen \/ HubSnapshotDump
    \/ HubSleep

\* ------------------------------------------------------- readers (spokes)
ReaderKinds == {"health", "cache_ru", "cache_p", "log"}
Sinces == {0, 1}

\* a request arrives and its handler takes the lock (lines 358, 388, 427);
\* the handler of /cache/p is a call of cache_ru (line 374)
ReaderRequest ==
    /\ rpc = "idle"
    /\ cache_lock = Free
    /\ cache_lock' = Reader
    /\ \E k \in ReaderKinds, n \in Sinces :
          /\ k = "log" \/ n = 0
          /\ rkind' = IF k = "cache_p" THEN "cache_ru" ELSE k
          /\ rsince' = n
    /\ rpc' = "locked"
    /\ UNCHANGED <<callHist, now, logVars, storeVars, statVars, inflight, qVars, snapfile, hubVars,
                   wpc, wLocals, rresp, histVars>>

SeqFilter(sq, n) ==
    LET F[i \in 0..Len(sq)] ==
            IF i = 0 THEN <<>>
            ELSE IF sq[i].seq > n THEN Append(F[i - 1], sq[i]) ELSE F[i - 1]
    IN F[Len(sq)]

\* lines 359-362: what /health copies under the lock
health ==
    [combos |-> DOMAIN cache_by_combo,
     states_cached_by_combo |->
         [c \in DOMAIN cache_by_combo |-> Cardinality(DOMAIN cache_by_combo[c].states)],
     last_cycle_end |-> last_cycle_end,
     stats |-> StatsDict]

\* variant of get_log that also returns the event whose seq equals since
get_log_inclusive(since) == [max_seq |-> log_seq, items |-> SeqFilter(logq, since - 1)]

\* lines 428-429
get_log(since) == [max_seq |-> log_seq, items |-> SeqFilter(logq, since)]

\* variant of cache_ru that leaves out the entries as old as the refresh window
cache_ru_fresh ==
    LET bucket == Get(cache_by_combo, combo_key("P", "G"), [states |-> EmptyDict])
        states == bucket.states
    IN { [state |-> usps, fips |-> f, total |-> states[usps].counties[f].total,
          updated |-> states[usps].updated] :
            <<usps, f>> \in { x \in (DOMAIN states) \X {"00001"} :
                                 /\ x[2] \in DOMAIN states[x[1]].counties
                                 /\ now - states[x[1]].updated < MIN_STATE_REFRESH_SEC } }

\* lines 389-390 and 409-418: the rows of /cache/ru for office P, raceTypeId G
cache_ru ==
    LET bucket == Get(cache_by_combo, combo_key("P", "G"), [states |-> EmptyDict])
        states == bucket.states
    IN { [state |-> usps, fips |-> f, total |-> states[usps].counties[f].total,
          updated |-> states[usps].updated] :
            <<usps, f>> \in { x \in (DOMAIN states) \X {"00001"} :
                                 x[2] \in DOMAIN states[x[1]].counties } }

\* variant of ReaderRead in which /cache/ru on an empty cache calls upstream
ReaderReadFetchOnMiss ==
    /\ rpc = "locked"
    /\ cache_lock' = Free
    /\ rresp' = IF rkind = "health" THEN <<"health", health>>
                ELSE IF rkind = "log" THEN <<"log", get_log(rsince)>>
                ELSE <<"states", combo_key("P", "G") \in DOMAIN cache_by_combo>>
    /\ rpc' = IF rkind = "cache_ru" THEN "flatten" ELSE "respond"
    /\ upstream_calls' = IF rkind = "cache_ru" /\ cache_by_combo = EmptyDict
                         THEN upstream_calls + 1 ELSE upstream_calls
    /\ UNCHANGED <<callHist, now, logVars, storeVars, upstream_bytes, errors, inflight, qVars, snapfile,
                   hubVars, wpc, wLocals, rkind, rsince, histVars>>

\* the locked section of the handler, then the lock's release; /cache/ru
\* leaves it with a reference, states: the bucket's live per-state map when
\* the combo has a bucket (TRUE), a new empty dict when it has none (FALSE)
ReaderRead ==
    /\ rpc = "locked"
    /\ cache_lock' = Free
    /\ rresp' = IF rkind = "health" THEN <<"health", health>>
                ELSE IF rkind = "log" THEN <<"log", get_log(rsince)>>
                ELSE <<"states", combo_key("P", "G") \in DOMAIN cache_by_combo>>
    /\ rpc' = IF rkind = "cache_ru" THEN "flatten" ELSE "respond"
    /\ UNCHANGED <<callHist, now, logVars, storeVars, statVars, inflight, qVars, snapfile, hubVars,
                   wpc, wLocals, rkind, rsince, histVars>>

\* lines 392-419: /cache/ru flattens, outside the lock, the map it holds a
\* reference to: the live per-state map, or the empty dict of line 389
ReaderFlatten ==
    /\ rpc = "flatten"
    /\ rresp' = <<"rows", IF rresp[2] THEN cache_ru ELSE {}>>
    /\ rpc' = "respond"
    /\ UNCHANGED <<callHist, now, cache_lock, logVars, storeVars, statVars, inflight, qVars, snapfile,
                   hubVars, wpc, wLocals, rkind, rsince, histVars>>

\* jsonify(...) returned
ReaderRespond ==
    /\ rpc = "respond"
    /\ rpc' = "idle"
    /\ rkind' = ""
    /\ rsince' = 0
    /\ rresp' = <<>>
    /\ UNCHANGED <<callHist, now, cache_lock, logVars, storeVars, statVars, inflight, qVars, snapfile,
                   hubVars, wpc, wLocals, histVars>>

ReaderStep == ReaderRequest \/ ReaderRead \/ ReaderFlatten \/ ReaderRespond

\* ------------------------------------------- supervisor (app-reboot1.py)
\* src/manual/app/app-reboot1.py watches the hub and its peer rebooter;
\* src/app_manual/app-reboot-ui1.py is the same program watching the UI.
\* the defaults of lines 52-53
BACKOFF_MIN_DEFAULT == 1
BACKOFF_MAX_DEFAULT == 20

Min(a, b) == IF a <= b THEN a ELSE b
Max(a, b) == IF a >= b THEN a ELSE b

\* what a GET of a health URL meets: no answer (connection refused, timeout)
\* or an answer with a status; nothing answers on a port that is not listening
NoAnswer == [resp |-> FALSE, status |-> 0]
Statuses == {200, 201, 204, 301, 404, 503}
ProbeOutcomes == {NoAnswer} \cup {[resp |-> TRUE, status |-> s] : s \in Statuses}
NoProbe == [listening |-> FALSE, o |-> NoAnswer]
ProbeEnvs == {NoProbe} \cup {[listening |-> TRUE, o |-> x] : x \in ProbeOutcomes}

\* lines 81-104: the HTTP client that is installed decides what http_get
\* returns: requests, else curl -fsS (exit status 0 below 400), else a bare
\* connection test of the URL's port
HttpClients == {"requests", "curl", "socket"}
http_get(client, e) ==
    IF client = "requests" THEN (IF e.o.resp THEN e.o.status ELSE 0)
    ELSE IF client = "curl" THEN (IF e.o.resp /\ e.o.status < 400 THEN 200 ELSE 0)
    ELSE (IF e.listening THEN 200 ELSE 0)

\* variant of hub_health_ok that takes every 2xx status
hub_health_ok_2xx(client, e) ==
    e.listening /\ http_get(client, e) \in 200..299

\* lines 107-112
hub_health_ok(client, e) ==
    IF ~e.listening THEN FALSE ELSE http_get(client, e) \in {200, 204}

\* lines 143-145
peer_health_ok(client, e) == http_get(client, e) = 200

\* the state at the top of main's loop; the installed client is c
SupInitWith(c, lo, hi) ==
    /\ BACKOFF_MIN = lo
    /\ BACKOFF_MAX = hi
    /\ http_client = c
    /\ sup_pc = "peer"
    /\ backoff = BACKOFF_MIN
    /\ last_restart_ts = 0
    /\ peer_up = FALSE
    /\ hub_up = FALSE
    /\ peer_seen = NoProbe
    /\ hub_seen = NoProbe
    /\ hub_launches = 0
    /\ peer_launches = 0
    /\ peer_pidfile = 0
    /\ waits = <<>>
    /\ probes = <<>>
    /\ sup_cycles = 1

\* the same with the tunables at their defaults
SupInit(c) == SupInitWith(c, BACKOFF_MIN_DEFAULT, BACKOFF_MAX_DEFAULT)

\* line 210: if not peer_health_ok()
SupPeerProbe ==
    /\ sup_pc = "peer"
    /\ \E e \in ProbeEnvs :
          /\ peer_seen' = e
          /\ peer_up' = peer_health_ok(http_client, e)
          /\ sup_pc' = IF peer_health_ok(http_client, e) THEN "hub" ELSE "peer_start"
    /\ UNCHANGED <<BACKOFF_MIN, BACKOFF_MAX, http_client, backoff, last_restart_ts, hub_up, hub_seen, hub_launches,
                   peer_launches, peer_pidfile, waits, probes, sup_cycles>>

\* variant of SupStartPeer in which a failed Popen is not swallowed and ends
\* the supervisor
SupStartPeerRaises ==
    /\ sup_pc = "peer_start"
    /\ \E popen_ok, write_ok \in BOOLEAN :
          /\ peer_launches' = IF popen_ok THEN peer_launches + 1 ELSE peer_launches
          /\ peer_pidfile' = IF popen_ok /\ write_ok THEN peer_launches + 1 ELSE peer_pidfile
          /\ sup_pc' = IF popen_ok THEN "hub" ELSE "crashed"
    /\ UNCHANGED <<BACKOFF_MIN, BACKOFF_MAX, http_client, backoff, last_restart_ts, peer_up, hub_up, peer_seen, hub_seen,
                   hub_launches, waits, probes, sup_cycles>>

\* lines 147-164: Popen of the peer and the write of its pid file; whatever
\* either raises is swallowed
SupStartPeer ==
    /\ sup_pc = "peer_start"
    /\ \E popen_ok, write_ok \in BOOLEAN :
          /\ peer_launches' = IF popen_ok THEN peer_launches + 1 ELSE peer_launches
          /\ peer_pidfile' = IF popen_ok /\ write_ok THEN peer_launches + 1 ELSE peer_pidfile
    /\ sup_pc' = "hub"
    /\ UNCHANGED <<BACKOFF_MIN, BACKOFF_MAX, http_client, backoff, last_restart_ts, peer_up, hub_up, peer_seen, hub_seen,
                   hub_launches, waits, probes, sup_cycles>>

\* line 214: if not hub_health_ok()
SupHubProbe ==
    /\ sup_pc = "hub"
    /\ \E e \in ProbeEnvs :
          /\ hub_seen' = e
          /\ hub_up' = hub_health_ok(http_client, e)
          /\ probes' = Append(probes, hub_health_ok(http_client, e))
          /\ waits' = IF hub_health_ok(http_client, e) THEN <<>> ELSE waits
          /\ sup_pc' = IF hub_health_ok(http_client, e) THEN "sleep" ELSE "restart"
    /\ UNCHANGED <<BACKOFF_MIN, BACKOFF_MAX, http_client, backoff, last_restart_ts, peer_up, peer_seen, hub_launches,
                   peer_launches, peer_pidfile, sup_cycles>>

\* lines 137-138 and 122-133: clear_port, then start_hub launches the hub,
\* stamps last_restart_ts and sets backoff to BACKOFF_MIN
SupStartHub ==
    /\ sup_pc = "restart"
    /\ hub_launches' = hub_launches + 1
    /\ \E t \in Max(last_restart_ts, StartTime)..MaxTime : last_restart_ts' = t
    /\ backoff' = BACKOFF_MIN
    /\ sup_pc' = "backoff"
    /\ UNCHANGED <<BACKOFF_MIN, BACKOFF_MAX, http_client, peer_up, hub_up, peer_seen, hub_seen, peer_launches,
                   peer_pidfile, waits, probes, sup_cycles>>

\* subprocess.run of clear_port or Popen of start_hub raises OSError: nothing
\* in main catches it and line 224 re-raises it
SupRaise ==
    /\ sup_pc = "restart"
    /\ sup_pc' = "crashed"
    /\ UNCHANGED <<BACKOFF_MIN, BACKOFF_MAX, http_client, backoff, last_restart_ts, peer_up, hub_up, peer_seen, hub_seen,
                   hub_launches, peer_launches, peer_pidfile, waits, probes,
                   sup_cycles>>

\* variant of SupBackoff that doubles without the cap of BACKOFF_MAX
SupBackoffNoCap ==
    /\ sup_pc = "backoff"
    /\ waits' = Append(waits, backoff)
    /\ backoff' = Max(BACKOFF_MIN, backoff * 2)
    /\ sup_pc' = "sleep"
    /\ UNCHANGED <<BACKOFF_MIN, BACKOFF_MAX, http_client, last_restart_ts, peer_up, hub_up,
                   peer_seen, hub_seen, hub_launches, peer_launches, peer_pidfile, probes,
                   sup_cycles>>

\* lines 139-140: time.sleep(backoff), then the doubling
SupBackoff ==
    /\ sup_pc = "backoff"
    /\ waits' = Append(waits, backoff)
    /\ backoff' = Min(BACKOFF_MAX, Max(BACKOFF_MIN, backoff * 2))
    /\ sup_pc' = "sleep"
    /\ UNCHANGED <<BACKOFF_MIN, BACKOFF_MAX, http_client, last_restart_ts, peer_up, hub_up, peer_seen, hub_seen,
                   hub_launches, peer_launches, peer_pidfile, probes, sup_cycles>>

\* line 217: time.sleep(CHECK_EVERY), and the loop goes round
SupSleep ==
    /\ sup_pc = "sleep"
    /\ sup_cycles < MaxSupCycles
    /\ sup_cycles' = sup_cycles + 1
    /\ sup_pc' = "peer"
    /\ UNCHANGED <<BACKOFF_MIN, BACKOFF_MAX, http_client, backoff, last_restart_ts, peer_up, hub_up, peer_seen, hub_seen,
                   hub_launches, peer_launches, peer_pidfile, waits, probes>>

SupStep ==
    \/ SupPeerProbe \/ SupStartPeer \/ SupHubProbe \/ SupStartHub \/ SupRaise
    \/ SupBackoff \/ SupSleep

\* ------------------------------------------ control panel (control-panel.py)
\* lines 32-52: the targets polled, each with its two health URLs
TargetNames == SubSeq(<<"app_hub", "hub_rebooter1", "hub_rebooter2">>, 1, NumTargets)
urls(name) == <<"/health", "/api/health">>

\* what requests.get meets at a URL: it raises, or it returns a status and a
\* body; the body is not JSON, or JSON without a "healthy" key, or JSON whose
\* "healthy" is null, true, false, a non-empty string or 0
PanelStatuses == {200, 503}
Bodies == {"nojson", "absent", "null", "true", "false", "str", "zero"}
PanelRaises == [resp |-> FALSE, status |-> 0, body |-> "nojson"]
PanelOutcomes ==
    {PanelRaises} \cup {[resp |-> TRUE, status |-> s, body |-> b] : s \in PanelStatuses, b \in Bodies}
Elapsed == {1}

\* lines 61-66: body.get("healthy"), None when there is no usable body
json_healthy(body) ==
    IF body = "true" THEN "True"
    ELSE IF body = "false" THEN "False"
    ELSE IF body = "str" THEN "'ok'"
    ELSE IF body = "zero" THEN "0"
    ELSE "None"

\* bool(x) of the values above
Truthy(v) == v \in {"True", "'ok'"}

\* variant of best_effort_probe in which a healthy field counts only on a
\* 2xx response
best_effort_probe_2xx(o) ==
    [alive |-> (o.status \in 200..299)
                  /\ (json_healthy(o.body) = "None" \/ Truthy(json_healthy(o.body))),
     healthy |-> json_healthy(o.body),
     code |-> o.status]

\* lines 56-70: (alive, json_healthy, status_code) of a probe that returned
best_effort_probe(o) ==
    [alive |-> IF json_healthy(o.body) # "None" THEN Truthy(json_healthy(o.body))
               ELSE o.status \in 200..299,
     healthy |-> json_healthy(o.body),
     code |-> o.status]

NoInfo == [alive |-> FALSE, healthy |-> "False", last_change |-> 0, ms |-> 0, last_url |-> ""]

\* lines 37-52 and 76-79: TARGETS as loaded, the poller entering its loop
PanelInit ==
    /\ TARGETS = [n \in {TargetNames[i] : i \in 1..NumTargets} |-> NoInfo]
    /\ cp_pc = "probe"
    /\ cp_t = 1
    /\ cp_u = 1
    /\ cp_alive = FALSE
    /\ cp_healthy = "None"
    /\ cp_ms = 0
    /\ cp_last_ok_url = ""
    /\ cp_seen = <<>>

\* lines 81-94: one turn of the loop over the target's URLs
PanelProbe ==
    /\ cp_pc = "probe"
    /\ \E o \in PanelOutcomes, ms \in Elapsed :
          /\ cp_seen' = IF cp_u = 1 THEN <<o>> ELSE Append(cp_seen, o)
          /\ IF o.resp /\ (best_effort_probe(o).alive \/ best_effort_probe(o).code \in 200..299)
             THEN /\ cp_alive' = best_effort_probe(o).alive
                  /\ cp_healthy' = IF best_effort_probe(o).healthy # "None"
                                   THEN best_effort_probe(o).healthy
                                   ELSE IF best_effort_probe(o).alive THEN "True" ELSE "False"
                  /\ cp_ms' = ms
                  /\ cp_last_ok_url' = urls(TargetNames[cp_t])[cp_u]
                  /\ cp_pc' = "commit"
                  /\ UNCHANGED cp_u
             ELSE /\ cp_u' = cp_u + 1
                  /\ cp_pc' = IF cp_u = Len(urls(TargetNames[cp_t])) THEN "commit" ELSE "probe"
                  /\ UNCHANGED <<cp_alive, cp_healthy, cp_ms, cp_last_ok_url>>
    /\ UNCHANGED <<TARGETS, cp_t>>

\* the latest reading of the panel's clock
PanelReadings ==
    LET F[i \in 0..NumTargets] ==
            IF i = 0 THEN StartTime ELSE Max(F[i - 1], TARGETS[TargetNames[i]].last_change)
    IN F[NumTargets]..MaxTime

\* lines 96-105 and 76-79: store the target's result, stamp a change of
\* alive, and start on the next target
PanelCommit ==
    /\ cp_pc = "commit"
    /\ \E t \in PanelReadings :
          TARGETS' = [TARGETS EXCEPT ![TargetNames[cp_t]] =
                         [alive |-> cp_alive,
                          healthy |-> cp_healthy,
                          ms |-> cp_ms,
                          last_url |-> cp_last_ok_url,
                          last_change |-> IF TARGETS[TargetNames[cp_t]].alive # cp_alive
                                          THEN t ELSE TARGETS[TargetNames[cp_t]].last_change]]
    /\ cp_alive' = FALSE
    /\ cp_healthy' = "None"
    /\ cp_ms' = 0
    /\ cp_last_ok_url' = ""
    /\ cp_u' = 1
    /\ cp_t' = IF cp_t = NumTargets THEN 1 ELSE cp_t + 1
    /\ cp_pc' = IF cp_t = NumTargets THEN "sleep" ELSE "probe"
    /\ UNCHANGED cp_seen

\* line 107: time.sleep(CHECK_INTERVAL)
PanelSleep ==
    /\ cp_pc = "sleep"
    /\ cp_pc' = "probe"
    /\ UNCHANGED <<TARGETS, cp_t, cp_u, cp_alive, cp_healthy, cp_ms, cp_last_ok_url, cp_seen>>

PanelStep == PanelProbe \/ PanelCommit \/ PanelSleep

\* ------------------------------------------------- the upstream simulator
\* functions of src/app/api.py and src/api/api.py applied to one input
NoInput == [fn |-> ""]
NoOutput == [fn |-> ""]
SimIdle ==
    /\ sim_pc = "idle"
    /\ sim_in = NoInput
    /\ sim_out = NoOutput

SeqsUpTo(S, n) == UNION {[1..k -> S] : k \in 0..n}
\* sum(votes)
SumSeq(s) ==
    LET F[i \in 0..Len(s)] == IF i = 0 THEN 0 ELSE F[i - 1] + s[i]
    IN F[Len(s)]

\* src/app/api.py lines 283-294; margin_pct is <<numerator, denominator>>
race_call_status(percent_in, margin_pct) ==
    IF percent_in >= 40 /\ margin_pct[1] >= margin_pct[2] THEN "Called"
    ELSE IF percent_in < 40 THEN "Too Early to Call"
    ELSE "No Decision"

\* variant of ru_called that calls the unit on percent_in alone
ru_called_no_margin(percent_in, votes) ==
    IF votes = <<>> THEN [called |-> FALSE, win_idx |-> 0, margin_pct |-> <<0, 1>>]
    ELSE LET total == Max(1, SumSeq(votes))
             first == CHOOSE i \in 1..Len(votes) :
                         /\ \A j \in 1..Len(votes) : votes[j] <= votes[i]
                         /\ \A j \in 1..(i - 1) : votes[j] < votes[i]
             rest == {votes[j] : j \in (1..Len(votes)) \ {first}}
             second == IF Len(votes) > 1
                       THEN CHOOSE v \in rest : \A x \in rest : x <= v
                       ELSE 0
             margin_pct == <<100 * (votes[first] - second), total>>
         IN [called |-> percent_in >= 40, win_idx |-> first, margin_pct |-> margin_pct]

\* src/app/api.py lines 296-308: order is the stable descending sort of the
\* indices, so order[0] is the first index that holds the maximum and
\* votes[order[1]] the largest of the others. Indices count from 1 here, 0
\* stands for None, and margin_pct = 100.0 * (top - second) / total is kept
\* as <<numerator, denominator>>
ru_called(percent_in, votes) ==
    IF votes = <<>> THEN [called |-> FALSE, win_idx |-> 0, margin_pct |-> <<0, 1>>]
    ELSE LET total == Max(1, SumSeq(votes))
             first == CHOOSE i \in 1..Len(votes) :
                         /\ \A j \in 1..Len(votes) : votes[j] <= votes[i]
                         /\ \A j \in 1..(i - 1) : votes[j] < votes[i]
             rest == {votes[j] : j \in (1..Len(votes)) \ {first}}
             second == IF Len(votes) > 1
                       THEN CHOOSE v \in rest : \A x \in rest : x <= v
                       ELSE 0
             margin_pct == <<100 * (votes[first] - second), total>>
         IN [called |-> percent_in >= 40 /\ margin_pct[1] >= margin_pct[2],
             win_idx |-> first, margin_pct |-> margin_pct]

\* PercentIn values on both sides of the threshold, and vote counts near and
\* far from each other
PercentIns == {0, 39, 40, 100}
VoteCounts == {0, 1, 100, 101, 102}

\* src/app/api.py lines 1060-1072 and 1094-1106: the status and the Winner
\* attributes of one ReportingUnit of /v2/districts, from its PercentIn and
\* its candidates' numeric votes
SimReportingUnit ==
    /\ sim_pc = "input"
    /\ sim_in.fn = "reporting_unit"
    /\ LET r == ru_called(sim_in.percent_in, sim_in.votes)
       IN sim_out' = [fn |-> "reporting_unit",
                      RaceCallStatus |-> race_call_status(sim_in.percent_in, r.margin_pct),
                      Winner |-> {i \in 1..Len(sim_in.votes) : r.called /\ r.win_idx = i}]
    /\ sim_pc' = "done"
    /\ UNCHANGED sim_in

\* int(round(a / b)) for a >= 0 and b > 0: Python rounds a half to the even
\* neighbour
RoundHalfEven(a, b) ==
    LET quot == a \div b
        rem == a % b
    IN IF 2 * rem < b THEN quot
       ELSE IF 2 * rem > b THEN quot + 1
       ELSE IF quot % 2 = 0 THEN quot ELSE quot + 1

\* src/app/api.py lines 393-406
scale_votes_to_total(votes, total) ==
    IF total <= 0 \/ votes = <<>> THEN [i \in 1..Len(votes) |-> 0]
    ELSE LET s == SumSeq(votes)
         IN IF s <= 0
            THEN LET equal == total \div Len(votes)
                     out == [i \in 1..Len(votes) |-> equal]
                 IN [out EXCEPT ![1] = @ + (total - SumSeq(out))]
            ELSE LET out == [i \in 1..Len(votes) |-> RoundHalfEven(votes[i] * total, s)]
                     drift == total - SumSeq(out)
                     fixed == IF drift # 0 THEN [out EXCEPT ![1] = @ + drift] ELSE out
                 IN [i \in 1..Len(votes) |-> Max(0, fixed[i])]

\* src/app/api.py lines 923-933 and 1084-1092: the intra-party votes of a
\* primary are scaled to the override total
SimScale ==
    /\ sim_pc = "input"
    /\ sim_in.fn = "scale"
    /\ sim_out' = [fn |-> "scale", votes |-> scale_votes_to_total(sim_in.votes, sim_in.total)]
    /\ sim_pc' = "done"
    /\ UNCHANGED sim_in

\* src/api/api.py line 89
PARTY_POOL == <<"REP", "DEM", "IND">>

\* src/api/api.py lines 91-112, for base = seeded_rng_u32(did): the parties
\* of the slate, in order (the names do not bear on them and are left out)
gen_cd_candidates(base, n) ==
    LET out == [i \in 1..n |->
                   IF i - 1 < 3 THEN PARTY_POOL[((base \div (i - 1 + 3)) % Len(PARTY_POOL)) + 1]
                   ELSE "IND"]
        have == {out[i] : i \in 1..Min(2, n)}
        names == IF "REP" \notin have THEN [out EXCEPT ![1] = "REP"] ELSE out
    IN IF "DEM" \notin have THEN [names EXCEPT ![2] = "DEM"] ELSE names

\* src/api/api.py lines 114-141, for base = seeded_rng_u32(f"{usps}-{office}")
gen_statewide_candidates(base, office, n) ==
    IF office = "P" THEN <<"REP", "DEM", "IND">>
    ELSE LET out == [i \in 1..n |->
                        IF i - 1 < 3
                        THEN PARTY_POOL[((base \div (i - 1 + 2)) % Len(PARTY_POOL)) + 1]
                        ELSE "IND"]
             have == {out[i] : i \in 1..Min(2, n)}
             names == IF "REP" \notin have THEN [out EXCEPT ![1] = "REP"] ELSE out
         IN IF "DEM" \notin have THEN [names EXCEPT ![2] = "DEM"] ELSE names

\* src/api/api.py line 341: cand = gen_cd_candidates(did, n=3)
SimCdSlate ==
    /\ sim_pc = "input"
    /\ sim_in.fn = "gen_cd_candidates"
    /\ sim_out' = [fn |-> sim_in.fn, slate |-> gen_cd_candidates(sim_in.base, 3)]
    /\ sim_pc' = "done"
    /\ UNCHANGED sim_in

\* src/api/api.py line 303: slate = gen_statewide_candidates(usps, officeId, n=3)
SimStatewideSlate ==
    /\ sim_pc = "input"
    /\ sim_in.fn = "gen_statewide_candidates"
    /\ sim_out' = [fn |-> sim_in.fn,
                   slate |-> gen_statewide_candidates(sim_in.base, sim_in.office, 3)]
    /\ sim_pc' = "done"
    /\ UNCHANGED sim_in

\* ---------------------------------------------------------- specifications
\* the hub and its workers
Init == InitWith(2, NumStates) /\ SupInit("requests") /\ PanelInit /\ SimIdle

Next ==
    /\ HubStep(MaxPuts) \/ (\E w \in Workers : WorkerStep(w))
    /\ UNCHANGED <<MAX_CONCURRENCY, nstates, supVars, panelVars, simVars>>

Spec == Init /\ [][Next]_vars

\* the hub with one worker, and the readers served by the Flask threads
InitReaders == InitWith(1, NumStates) /\ SupInit("requests") /\ PanelInit /\ SimIdle

NextReaders ==
    /\ HubStep(MaxReaderPuts) \/ (\E w \in Workers : WorkerStep(w)) \/ ReaderStep
    /\ UNCHANGED <<MAX_CONCURRENCY, nstates, supVars, panelVars, simVars>>

SpecReaders == InitReaders /\ [][NextReaders]_vars

\* the hub over two states with MAX_CONCURRENCY set to 0 or to 1
InitPool ==
    /\ \E n \in {0, 1} : InitWith(n, NumPoolStates)
    /\ SupInit("requests")
    /\ PanelInit
    /\ SimIdle

NextPool ==
    /\ HubStep(MaxPoolPuts) \/ (\E w \in Workers : WorkerStep(w))
    /\ UNCHANGED <<MAX_CONCURRENCY, nstates, supVars, panelVars, simVars>>

SpecPool == InitPool /\ [][NextPool]_vars

\* the hub with one worker, over three items
InitScenario == InitWith(1, NumStates) /\ SupInit("requests") /\ PanelInit /\ SimIdle

NextScenario ==
    /\ HubStep(MaxScenarioPuts) \/ (\E w \in Workers : WorkerStep(w))
    /\ UNCHANGED <<MAX_CONCURRENCY, nstates, supVars, panelVars, simVars>>

SpecScenario == InitScenario /\ [][NextScenario]_vars

\* the hub with two workers over two states: concurrent log() calls
InitLog == InitWith(2, NumPoolStates) /\ SupInit("requests") /\ PanelInit /\ SimIdle

NextLog ==
    /\ HubStep(MaxPoolPuts) \/ (\E w \in Workers : WorkerStep(w))
    /\ UNCHANGED <<MAX_CONCURRENCY, nstates, supVars, panelVars, simVars>>

SpecLog == InitLog /\ [][NextLog]_vars

\* the hub with one worker, started on each of the snapshot files
InitSnapshot ==
    /\ \E f \in SnapshotFiles : InitFrom(1, NumStates, f)
    /\ SupInit("requests")
    /\ PanelInit
    /\ SimIdle

NextSnapshot ==
    /\ HubStep(MaxSnapshotPuts) \/ HubLoadStep \/ (\E w \in Workers : WorkerStep(w))
    /\ UNCHANGED <<MAX_CONCURRENCY, nstates, supVars, panelVars, simVars>>

SpecSnapshot == InitSnapshot /\ [][NextSnapshot]_vars

\* the hub with one worker over three states, more than a batch holds
InitRoundRobin == InitWith(1, NumRoundRobinStates) /\ SupInit("requests") /\ PanelInit /\ SimIdle

NextRoundRobin ==
    /\ HubStep(MaxPoolPuts) \/ (\E w \in Workers : WorkerStep(w))
    /\ UNCHANGED <<MAX_CONCURRENCY, nstates, supVars, panelVars, simVars>>

SpecRoundRobin == InitRoundRobin /\ [][NextRoundRobin]_vars

\* the hub with one worker, and upstream bodies whose VoteCount attributes
\* can be empty or no number
InitDecoder == InitWith(1, NumStates) /\ SupInit("requests") /\ PanelInit /\ SimIdle

NextDecoder ==
    /\ HubStep(MaxDecoderPuts) \/ (\E w \in Workers : WorkerStep(w) \/ DecoderStep(w))
    /\ UNCHANGED <<MAX_CONCURRENCY, nstates, supVars, panelVars, simVars>>

SpecDecoder == InitDecoder /\ [][NextDecoder]_vars

\* the supervisor alone, with each of the HTTP clients it can find
InitSupervisor ==
    /\ InitWith(1, NumStates)
    /\ \E c \in HttpClients : SupInit(c)
    /\ PanelInit
    /\ SimIdle

NextSupervisor == SupStep /\ UNCHANGED <<appVars, panelVars, simVars>>

SpecSupervisor == InitSupervisor /\ [][NextSupervisor]_vars

\* the supervisor with BACKOFF_MIN and BACKOFF_MAX set in the environment,
\* BACKOFF_MIN <= BACKOFF_MAX
InitBackoff ==
    /\ InitWith(1, NumStates)
    /\ \E lo \in 1..MaxBackoff : \E hi \in lo..MaxBackoff : SupInitWith("requests", lo, hi)
    /\ PanelInit
    /\ SimIdle

NextBackoff == SupStep /\ UNCHANGED <<appVars, panelVars, simVars>>

SpecBackoff == InitBackoff /\ [][NextBackoff]_vars

\* one ReportingUnit of the simulator's districts feed
InitReportingUnit ==
    /\ InitWith(1, NumStates) /\ SupInit("requests") /\ PanelInit
    /\ sim_pc = "input"
    /\ sim_out = NoOutput
    /\ \E p \in PercentIns, v \in SeqsUpTo(VoteCounts, MaxSlate) :
          sim_in = [fn |-> "reporting_unit", percent_in |-> p, votes |-> v]

NextReportingUnit == SimReportingUnit /\ UNCHANGED <<appVars, supVars, panelVars>>

SpecReportingUnit == InitReportingUnit /\ [][NextReportingUnit]_vars

\* one call of _scale_votes_to_total
InitScale ==
    /\ InitWith(1, NumStates) /\ SupInit("requests") /\ PanelInit
    /\ sim_pc = "input"
    /\ sim_out = NoOutput
    /\ \E v \in SeqsUpTo(0..MaxVotes, MaxSlate), t \in 0..MaxTotal :
          sim_in = [fn |-> "scale", votes |-> v, total |-> t]

NextScale == SimScale /\ UNCHANGED <<appVars, supVars, panelVars>>

SpecScale == InitScale /\ [][NextScale]_vars

\* one slate of src/api/api.py: of a district, or of a state and an office,
\* whose seed hashes to any value up to MaxBase
InitSlate ==
    /\ InitWith(1, NumStates) /\ SupInit("requests") /\ PanelInit
    /\ sim_pc = "input"
    /\ sim_out = NoOutput
    /\ \E b \in 0..MaxBase :
          \/ sim_in = [fn |-> "gen_cd_candidates", base |-> b]
          \/ \E o \in {"P", "S"} :
                sim_in = [fn |-> "gen_statewide_candidates", base |-> b, office |-> o]

NextSlate == (SimCdSlate \/ SimStatewideSlate) /\ UNCHANGED <<appVars, supVars, panelVars>>

SpecSlate == InitSlate /\ [][NextSlate]_vars

\* the control panel's poller alone
InitPanel == InitWith(1, NumStates) /\ SupInit("requests") /\ PanelInit /\ SimIdle

NextPanel == PanelStep /\ UNCHANGED <<appVars, supVars, simVars>>

SpecPanel == InitPanel /\ [][NextPanel]_vars

\* ------------------------------------------------------------------ claims
States == {ALL_STATES[i] : i \in 1..Len(ALL_STATES)}
UspsOf(w) == witem[w][1]
LastFetchAt(usps) ==
    Get(Get(per_combo_state, combo_state_key("P", "G", usps), EmptyDict), "last_fetch", 0)
NoEntry == [updated |-> 0, office |-> "", counties |-> EmptyDict]
Entry(usps) ==
    Get(Get(cache_by_combo, combo_key("P", "G"), [states |-> EmptyDict]).states, usps, NoEntry)
ErrorPaths == {"transport", "http", "malformed"}
CallEnded(w) == wpc[w] \in {"task_done", "get", "dead"}

\* C1: single-flight. In every reachable state, for every key at most one
\* worker is between installing the key's guard and releasing it, hence at
\* most one upstream request for that key is in progress.
C1_SingleFlight ==
    \A w1, w2 \in Workers :
        (wpc[w1] \in OwnerPcs /\ wpc[w2] \in OwnerPcs /\ KeyOf(w1) = KeyOf(w2)) => w1 = w2

\* one worker's request for a key is in progress while another worker's call
\* for that same key has been turned away by the guard
C1_Witness ==
    \E w1, w2 \in Workers :
        /\ w1 # w2
        /\ wpc[w1] = "request"
        /\ KeyOf(w2) = KeyOf(w1)
        /\ wpath[w2] = "busy"

C3_GuardOnlyWhileInProgress ==
    inflight = {KeyOf(w) : w \in {x \in Workers : wpc[x] \in OwnerPcs}}

\* a call ended by a decoder exception and its key is not in the set
C3_Witness ==
    \E w \in Workers :
        /\ wpath[w] = "malformed"
        /\ wpc[w] = "task_done"
        /\ KeyOf(w) \notin inflight

\* C4: a worker whose upstream request is in progress does not hold the
\* store lock.
C4_NoLockAcrossRequest ==
    \A w \in Workers : wpc[w] = "request" => cache_lock # W(w)

\* a request is in progress while another thread is inside a locked section
C4_Witness ==
    \E w \in Workers : wpc[w] = "request" /\ cache_lock \notin {Free, W(w)}

\* C5: a step of a reader request leaves the counters, the cache, the
\* per-key stats, the in-flight set and every worker where they are, so it
\* issues no upstream request.
C5_ReadersFrame ==
    [][rpc' # rpc =>
          /\ upstream_calls' = upstream_calls
          /\ upstream_bytes' = upstream_bytes
          /\ errors' = errors
          /\ cache_by_combo' = cache_by_combo
          /\ per_combo_state' = per_combo_state
          /\ inflight' = inflight
          /\ reqLast' = reqLast
          /\ wpc' = wpc
          /\ q' = q]_vars

\* a reader has been served rows of a populated cache
C5_Witness ==
    /\ rpc = "respond"
    /\ rresp[1] = "rows"
    /\ rresp[2] # {}
    /\ upstream_calls > 0

\* C6: at the cooldown decision for key k the worker skips k, with a skip
\* log event and without an upstream request, exactly when
\* now - lastFetchAt(k) < minRefreshInterval; otherwise it issues the request.
C6_Cooldown ==
    [][\A w \in Workers :
          /\ (wpc[w] = "sr_cmp" /\ wpc'[w] # "sr_cmp") =>
                IF now' - LastFetchAt(UspsOf(w)) < MIN_STATE_REFRESH_SEC
                THEN /\ wpc'[w] = "log"
                     /\ wpath'[w] = "skip"
                     /\ reqLast' = reqLast
                ELSE wpc'[w] = "request"
          /\ (wpath[w] = "skip" /\ wpc[w] = "log_l" /\ wpc'[w] # "log_l") =>
                /\ Len(logq') > 0
                /\ logq'[Len(logq')].msg = <<"Skip", KeyOf(w)>>
          /\ wpath'[w] = "skip" => (wt0'[w] = 0 /\ wresp'[w] = NoResp)]_vars

\* a key published earlier in the run has been skipped and the skip logged
C6_Witness ==
    \E w \in Workers :
        /\ wpath[w] = "skip"
        /\ wpc[w] = "fin"
        /\ logq[Len(logq)].msg = <<"Skip", KeyOf(w)>>
        /\ Entry(UspsOf(w)) # NoEntry

\* C7 as stated: whenever an upstream request is issued for a key, the
\* previous request for that key, if any, was issued at least
\* minRefreshInterval earlier, whether it succeeded or failed.
C7_HardCeiling ==
    [][\A w \in Workers :
          (wpc[w] = "sr_cmp" /\ wpc'[w] = "request") =>
              \/ reqLast[UspsOf(w)] = 0
              \/ now' - reqLast[UspsOf(w)] >= MIN_STATE_REFRESH_SEC]_vars

\* C8: a key's cache entry, its updated timestamp included, changes only in
\* the publish step of a successful fetch; a call that met a transport error,
\* a non-200 status or a decoder exception never publishes, and a reader's
\* /cache/ru rows hold every stored entry with its stored timestamp (the
\* handler having found the combo's bucket when it took the lock).
C8_StaleSurvivesFailure ==
    [][/\ \A usps \in States :
             Entry(usps)' # Entry(usps) =>
                 \E w \in Workers :
                     /\ UspsOf(w) = usps
                     /\ wpc[w] = "store_l"
                     /\ wpath[w] = ""
                     /\ wpath'[w] = "ok"
       /\ \A w \in Workers : wpath[w] \in ErrorPaths => wpath'[w] \in ErrorPaths \cup {""}
       /\ (rpc = "flatten" /\ rpc' = "respond" /\ rresp[2]) =>
             \A usps \in States :
                 Entry(usps) # NoEntry =>
                     \E row \in rresp'[2] :
                         row.state = usps /\ row.updated = Entry(usps).updated]_vars

\* an entry published before the key's last request, that request having
\* failed, is served to a reader
C8_Witness ==
    \E w \in Workers :
        /\ wpath[w] \in ErrorPaths
        /\ CallEnded(w)
        /\ Entry(UspsOf(w)) # NoEntry
        /\ Entry(UspsOf(w)).updated < reqLast[UspsOf(w)]
        /\ rpc = "respond"
        /\ rresp[1] = "rows"
        /\ \E row \in rresp[2] :
              row.state = UspsOf(w) /\ row.updated = Entry(UspsOf(w)).updated

\* C9 as stated: every error met by a worker's fetch (transport error,
\* non-200 status, malformed payload) is recorded, so the errors counter
\* equals the number of errors met, save those whose recording is under way,
\* and no worker thread has ended.
C9_ErrorsRecorded ==
    /\ errors + Cardinality({w \in Workers : wpc[w] \in {"err", "err_l"}}) = nraised
    /\ \A w \in Workers : wpc[w] # "dead"

\* C10 as stated, in the form a finite run refutes: a cycle that has started
\* can still drain, i.e. the hub never has items of its batch unfinished, to
\* be waited for in q.join, with no worker thread left to take them.
C10_StartedCycleDrains ==
    ~(hub_pc \in {"put", "join"} /\ unfinished > 0 /\ \A w \in Workers : wpc[w] = "dead")

C12_PoolBound ==
    Cardinality({w \in DOMAIN wpc : wpc[w] = "request"})
        <= (IF MAX_CONCURRENCY > 1 THEN MAX_CONCURRENCY ELSE 1)

\* with MAX_CONCURRENCY = 0 one request is in progress while the item of
\* another key waits in the queue
C12_Witness ==
    /\ MAX_CONCURRENCY = 0
    /\ q # <<>>
    /\ \E w \in DOMAIN wpc : wpc[w] = "request" /\ Head(q)[1] # UspsOf(w)

OkCount(pcs, usps) == Get(Get(pcs, combo_state_key("P", "G", usps), EmptyDict), "ok", 0)

\* C13: publish is all-or-nothing per key. In every state, hence at every
\* point where a thread can take the lock and read, a key has a cache entry
\* exactly when its stats carry an ok count and a last_fetch time, the entry
\* is whole (office, counties, updated no later than last_fetch), and the
\* copy /health takes under the lock counts as many cached states as its
\* stats copy has keys with an ok count.
C13_PublishAtomic ==
    /\ \A usps \in States :
          /\ Entry(usps) # NoEntry <=> OkCount(per_combo_state, usps) >= 1
          /\ Entry(usps) # NoEntry <=> LastFetchAt(usps) # 0
          /\ Entry(usps) # NoEntry =>
                /\ Entry(usps).office = "P"
                /\ DOMAIN Entry(usps).counties # {}
                /\ Entry(usps).updated <= LastFetchAt(usps)
                /\ Entry(usps).updated <= cache_by_combo[combo_key("P", "G")].updated
    /\ (Len(rresp) = 2 /\ rresp[1] = "health") =>
          Get(rresp[2].states_cached_by_combo, combo_key("P", "G"), 0)
              = Cardinality({usps \in States : OkCount(rresp[2].stats.per_combo_state, usps) >= 1})

\* /health has copied, under the lock, a cache holding a published key
C13_Witness ==
    /\ Len(rresp) = 2
    /\ rresp[1] = "health"
    /\ Get(rresp[2].states_cached_by_combo, combo_key("P", "G"), 0) = 1
    /\ \E usps \in States : OkCount(rresp[2].stats.per_combo_state, usps) = 1

\* the workers whose response has arrived and is about to be counted
Uncounted == {w \in Workers : wpc[w] \in {"stat", "stat_l"}}
SumLen(ws) ==
    LET F[S \in SUBSET ws] ==
            IF S = {} THEN 0
            ELSE LET x == CHOOSE y \in S : TRUE
                 IN ContentLen(wresp[x]) + F[S \ {x}]
    IN F[ws]

\* C14: upstream_calls and upstream_bytes grow by 1 and by the response's
\* length exactly once for each upstream request that received a response,
\* whatever its status: the counters equal the number and the total length
\* of the responses received, save those about to be counted. A call that
\* was turned away by the guard, skipped by the cooldown or ended by a
\* transport error has received no response.
C14_CountedOncePerResponse ==
    /\ upstream_calls + Cardinality(Uncounted) = nresp
    /\ upstream_bytes + SumLen(Uncounted) = nrespBytes
    /\ \A w \in Workers :
          wpath[w] \in {"busy", "skip", "transport"} => wresp[w] = NoResp

\* a 200 has been counted, with its length, and another call ended in a
\* transport error
C14_Witness ==
    /\ upstream_calls = 1
    /\ upstream_bytes = 2
    /\ errors = 1
    /\ \E w \in Workers : wpath[w] = "transport" /\ CallEnded(w)

\* C15: the end-to-end scenario for one key, with the freshness window equal
\* to MIN_STATE_REFRESH_SEC. The first call for a key never requested issues
\* one upstream request and its success publishes a record stamped with the
\* clock; a later call whose clock reading is less than a window after that
\* stamp issues no upstream request and leaves the record and the counters
\* as they are; a call a full window or more after the stamp issues a new
\* upstream request.
C15_Scenario ==
    [][\A w \in Workers :
          /\ (wpc[w] = "sr_cmp" /\ wpc'[w] # "sr_cmp") =>
                /\ (Entry(UspsOf(w)) = NoEntry /\ reqLast[UspsOf(w)] = 0) =>
                      /\ wpc'[w] = "request"
                      /\ wtries'[w] = 1
                /\ (Entry(UspsOf(w)) # NoEntry
                        /\ now' - Entry(UspsOf(w)).updated < MIN_STATE_REFRESH_SEC) =>
                      /\ wpc'[w] = "log"
                      /\ wret'[w] = "True"
                      /\ wtries'[w] = 0
                      /\ reqLast' = reqLast
                      /\ upstream_calls' = upstream_calls
                      /\ Entry(UspsOf(w))' = Entry(UspsOf(w))
                /\ (Entry(UspsOf(w)) # NoEntry
                        /\ now' - Entry(UspsOf(w)).updated >= MIN_STATE_REFRESH_SEC) =>
                      /\ wpc'[w] = "request"
                      /\ reqLast'[UspsOf(w)] = now'
          /\ (wpc[w] = "store_l" /\ wpc'[w] = "log") =>
                /\ Entry(UspsOf(w))' # NoEntry
                /\ Entry(UspsOf(w))'.updated = now'
                /\ wret'[w] = "True"]_vars

\* the three calls of the scenario: the key was published by the only request
\* answered so far, the second call ended without a request and without an
\* error, and the third call, past the window, has its request in progress
C15_Witness ==
    \E w \in Workers :
        /\ puts = 3
        /\ unfinished = 1
        /\ wpc[w] = "request"
        /\ Entry(UspsOf(w)) # NoEntry
        /\ reqLast[UspsOf(w)] - Entry(UspsOf(w)).updated >= MIN_STATE_REFRESH_SEC
        /\ upstream_calls = 1
        /\ nresp = 1
        /\ nraised = 0

\* C16 as stated, with ttl equal to the refresh window: the rows /cache/ru
\* returns hold key k's record if and only if the record exists and
\* now - updated < ttl, so a record as old as ttl is never returned.
C16_FreshOnly ==
    [][(rpc = "flatten" /\ rpc' = "respond" /\ rresp[2]) =>
          \A usps \in States :
              (\E row \in rresp'[2] : row.state = usps)
                  <=> (Entry(usps) # NoEntry
                          /\ now - Entry(usps).updated < MIN_STATE_REFRESH_SEC)]_vars

\* C16 amended: the read path applies no ttl. The rows /cache/ru returns
\* hold key k's record if and only if the per-state map the handler took
\* under the lock holds one when it is flattened, whatever its age; a handler
\* that found no bucket for the combo returns no rows.
C16_ReadReturnsAnyAge ==
    [][(rpc = "flatten" /\ rpc' = "respond") =>
          \A usps \in States :
              (\E row \in rresp'[2] : row.state = usps)
                  <=> (rresp[2] /\ Entry(usps) # NoEntry)]_vars

\* a reader has been served a record that is a refresh window old
C16_Witness ==
    /\ rpc = "respond"
    /\ rresp[1] = "rows"
    /\ \E row \in rresp[2] :
          /\ now - row.updated >= MIN_STATE_REFRESH_SEC
          /\ row.updated = Entry(row.state).updated

\* C17 as stated: when the hub's health probe has failed exactly once and
\* the probe after it succeeds, the supervisor has issued exactly one
\* relaunch and, that successful probe cycle done, backoff equals BACKOFF_MIN.
C17_OneRelaunchThenReset ==
    (/\ sup_pc = "sleep"
     /\ Len(probes) >= 2
     /\ probes[Len(probes)]
     /\ ~probes[Len(probes) - 1]
     /\ Cardinality({i \in 1..Len(probes) : ~probes[i]}) = 1)
        => (hub_launches = 1 /\ backoff = BACKOFF_MIN)

\* C18 as stated: while the hub stays down over consecutive probes, the
\* sleep(backoff) of the i-th relaunch in a row lasts
\* min(BACKOFF_MAX, BACKOFF_MIN * 2^(i-1)).
C18_WaitsDouble ==
    \A i \in 1..Len(waits) : waits[i] = Min(BACKOFF_MAX, BACKOFF_MIN * 2^(i - 1))

\* C19 as stated: the hub and the peer are classified Up exactly when their
\* health probe returned a 2xx status.
C19_UpIff2xx ==
    /\ hub_up <=> (hub_seen.o.resp /\ hub_seen.o.status \in 200..299)
    /\ peer_up <=> (peer_seen.o.resp /\ peer_seen.o.status \in 200..299)

\* C19 amended: with the requests library the hub is Up exactly when its
\* port accepts a connection and the probe returns 200 or 204, and the peer
\* exactly when the probe returns 200; with the curl fallback, exactly when
\* the probe is answered with a status below 400 (and the hub's port accepts
\* a connection); with neither, exactly when the port accepts a connection.
\* With requests or curl, no answer and every status from 400 up are Down.
C19_UpIff200 ==
    /\ http_client = "requests" =>
          /\ hub_up <=> (hub_seen.listening /\ hub_seen.o.resp /\ hub_seen.o.status \in {200, 204})
          /\ peer_up <=> (peer_seen.o.resp /\ peer_seen.o.status = 200)
    /\ http_client = "curl" =>
          /\ hub_up <=> (hub_seen.listening /\ hub_seen.o.resp /\ hub_seen.o.status < 400)
          /\ peer_up <=> (peer_seen.o.resp /\ peer_seen.o.status < 400)
    /\ http_client = "socket" =>
          /\ hub_up <=> hub_seen.listening
          /\ peer_up <=> peer_seen.listening
    /\ http_client # "socket" =>
          /\ (~hub_seen.o.resp \/ hub_seen.o.status >= 400) => ~hub_up
          /\ (~peer_seen.o.resp \/ peer_seen.o.status >= 400) => ~peer_up

\* with requests, a hub answering 201 and a peer answering 204 are both
\* classified Down and the hub is about to be relaunched
C19_Witness ==
    /\ http_client = "requests"
    /\ sup_pc = "restart"
    /\ hub_seen.o.status = 201
    /\ ~hub_up
    /\ peer_seen.o.status = 204
    /\ ~peer_up

\* C20 as stated: when a target's poll ends, the target is reported alive
\* exactly when one of its probes returned a 2xx response whose body has no
\* healthy value (not JSON, no field, null) or a healthy value that counts as
\* true.
C20_AliveIff2xxHealthy ==
    [][(cp_pc = "commit" /\ cp_pc' # "commit") =>
          (TARGETS'[TargetNames[cp_t]].alive
              <=> \E i \in 1..Len(cp_seen) :
                      /\ cp_seen[i].resp
                      /\ cp_seen[i].status \in 200..299
                      /\ cp_seen[i].body \in {"nojson", "absent", "null", "true", "str"})]_vars

\* C20 amended: the poll of a target stops at the first probe that is
\* answered with a 2xx status or with a truthy healthy value, and the target
\* is reported alive exactly when that probe exists and either its healthy
\* value is truthy, whatever the status, or it is 2xx and has no usable
\* healthy value (not JSON, no field, null). A 2xx response with a falsy
\* healthy value ends the poll with the target not alive.
C20_AliveIffLastProbe ==
    [][(cp_pc = "commit" /\ cp_pc' # "commit") =>
          /\ Len(cp_seen) > 0
          /\ \A i \in 1..(Len(cp_seen) - 1) :
                ~cp_seen[i].resp
                    \/ (cp_seen[i].status \notin 200..299 /\ cp_seen[i].body \notin {"true", "str"})
          /\ TARGETS'[TargetNames[cp_t]].alive
                <=> /\ cp_seen[Len(cp_seen)].resp
                    /\ \/ cp_seen[Len(cp_seen)].body \in {"true", "str"}
                       \/ /\ cp_seen[Len(cp_seen)].status \in 200..299
                          /\ cp_seen[Len(cp_seen)].body \in {"nojson", "absent", "null"}]_vars

\* a target is reported alive on a 503 whose body says healthy: true, the
\* first URL having raised
C20_Witness ==
    /\ cp_pc = "sleep"
    /\ Len(cp_seen) = 2
    /\ cp_seen[2].status = 503
    /\ cp_seen[2].body = "true"
    /\ \E n \in DOMAIN TARGETS : TARGETS[n].alive /\ TARGETS[n].last_url = "/api/health"

\* C21 as stated: no error raised by a probe, a port clear or a relaunch ends
\* main's loop: the supervisor is never at the point where an exception has
\* left main and line 224 has re-raised it.
C21_NeverCrashes ==
    sup_pc # "crashed"

\* C22: peer watchdog. In every iteration of main's loop, a failed peer probe
\* is followed by the call of start_peer_inline, whatever the last hub probe
\* found; start_peer_inline, whether its Popen and its pid-file write
\* succeed or fail, is followed by the hub's probe of that same iteration;
\* and a failed hub probe is followed by the hub's relaunch.
C22_PeerWatchdog ==
    [][/\ (sup_pc = "peer" /\ sup_pc' # "peer") =>
             /\ sup_pc' = IF peer_health_ok(http_client, peer_seen') THEN "hub" ELSE "peer_start"
             /\ sup_cycles' = sup_cycles
       /\ (sup_pc = "peer_start" /\ sup_pc' # "peer_start") =>
             /\ sup_pc' = "hub"
             /\ sup_cycles' = sup_cycles
       /\ (sup_pc = "hub" /\ sup_pc' # "hub") =>
             /\ sup_pc' = IF hub_health_ok(http_client, hub_seen') THEN "sleep" ELSE "restart"
             /\ sup_cycles' = sup_cycles]_vars

\* in one iteration the peer probe failed, the peer launch failed too, and
\* the hub, found down, has been relaunched
C22_Witness ==
    /\ sup_cycles = 1
    /\ ~peer_up
    /\ peer_launches = 0
    /\ ~hub_up
    /\ hub_launches = 1

\* C23: every log() call, from whatever thread, appends one event whose seq
\* is the counter's new value, one more than any seq assigned before, and the
\* seq values held in the ring are strictly increasing in append order.
C23_SeqStrictlyIncreasing ==
    [][/\ log_seq' # log_seq => logq' # logq
       /\ logq' # logq =>
             /\ log_seq' = log_seq + 1
             /\ Len(logq') > 0
             /\ logq'[Len(logq')].seq = log_seq'
             /\ \A i \in 1..Len(logq) : logq[i].seq < logq'[Len(logq')].seq
             /\ \A i \in 1..(Len(logq') - 1) : logq'[i].seq < logq'[i + 1].seq]_vars

\* two workers have logged one right after the other, each about to release
\* its guard, and the ring has evicted older events
C23_Witness ==
    /\ Len(logq) = LOG_MAXLEN
    /\ log_seq > LOG_MAXLEN
    /\ logq[1].seq < logq[2].seq
    /\ \E w1, w2 \in Workers :
          /\ w1 # w2
          /\ wpc[w1] = "fin"
          /\ wpc[w2] = "fin"
          /\ logq[1].msg[2] = KeyOf(w1)
          /\ logq[2].msg[2] = KeyOf(w2)

\* C24: the answer /log?since=N builds under the lock holds exactly the
\* events of the ring whose seq is greater than N, in increasing seq order,
\* with max_seq equal to the last seq assigned, which is no smaller than the
\* seq of any returned event.
C24_LogSince ==
    [][(rpc = "locked" /\ rkind = "log" /\ rpc' = "respond") =>
          LET items == rresp'[2].items
              max_seq == rresp'[2].max_seq
          IN /\ max_seq = log_seq
             /\ \A i \in 1..Len(logq) :
                   logq[i].seq > rsince <=> \E j \in 1..Len(items) : items[j] = logq[i]
             /\ \A j \in 1..Len(items) :
                   /\ items[j].seq > rsince
                   /\ items[j].seq <= max_seq
                   /\ \E i \in 1..Len(logq) : logq[i] = items[j]
             /\ \A j \in 1..(Len(items) - 1) : items[j].seq < items[j + 1].seq]_vars

\* /log?since=1 has answered with one event of a ring of two, and another
\* thread has logged since the answer was built
C24_Witness ==
    /\ rpc = "respond"
    /\ rresp[1] = "log"
    /\ rsince = 1
    /\ Len(rresp[2].items) = 1
    /\ rresp[2].items[1].seq = rresp[2].max_seq
    /\ log_seq > rresp[2].max_seq

\* C25 as stated, in the form a finite run refutes: a crash leaves the
\* snapshot file as it is in the state where it strikes, so every step of a
\* save either leaves the file as it was (the complete previous snapshot) or
\* puts the complete new snapshot in its place.
C25_SnapshotWhole ==
    [][(hub_pc \in {"save", "save_l", "open", "dump"}) =>
          \/ snapfile' = snapfile
          \/ snapfile'.form = "snapshot"]_vars

\* C26 as stated: when the snapshot file is missing, unreadable, corrupt or
\* ill-shaped, the load is over without an error reaching the hub loop and
\* polling starts from the cold initial state: empty cache, last_cycle_end 0,
\* counters 0 and no per-key stats.
C26_BestEffortLoad ==
    (hub_pc = "spawn" /\ (snapfile.exists => snapfile.form # "snapshot"))
        => /\ cache_by_combo = EmptyDict
           /\ last_cycle_end = 0
           /\ upstream_calls = 0
           /\ upstream_bytes = 0
           /\ errors = 0
           /\ per_combo_state = EmptyDict

\* C28: once the hub loop has passed the snapshot load, no step lowers
\* upstream_calls, upstream_bytes, errors or the ok or err count of any key,
\* and no step removes a key's stats record.
C28_CountersMonotonic ==
    [][(hub_pc \notin {"start", "start_l", "load", "load_apply", "load_apply_l",
                       "load_log", "load_log_l", "load_warn", "load_warn_l"}) =>
          /\ upstream_calls' >= upstream_calls
          /\ upstream_bytes' >= upstream_bytes
          /\ errors' >= errors
          /\ \A pk \in DOMAIN per_combo_state :
                /\ pk \in DOMAIN per_combo_state'
                /\ Get(per_combo_state'[pk], "ok", 0) >= Get(per_combo_state[pk], "ok", 0)
                /\ Get(per_combo_state'[pk], "err", 0) >= Get(per_combo_state[pk], "err", 0)]_vars

\* the counters loaded from the previous run's snapshot have grown with the
\* first item polled: a second response has been counted and a failure
\* recorded next to the loaded ok count
C28_Witness ==
    /\ snapfile.exists
    /\ puts = 1
    /\ last_cycle_end = PrevSnapshot.last_cycle_end
    /\ upstream_calls = PrevStats.upstream_calls + 1
    /\ errors = 1
    /\ combo_state_key("P", "G", "AL") \in DOMAIN per_combo_state
    /\ Get(per_combo_state[combo_state_key("P", "G", "AL")], "ok", 0) = 1
    /\ Get(per_combo_state[combo_state_key("P", "G", "AL")], "err", 0) = 1

\* C29: round-robin selection. Each batch holds STATES_PER_CYCLE keys, each
\* the cyclic successor in ALL_STATES of the key selected before it, the
\* first batch starting at the head of ALL_STATES and every later batch where
\* the previous one stopped; hence, over two successive batches, between two
\* successive selections of a key every other key is selected exactly once.
C29_RoundRobin ==
    [][(hub_pc = "cycle" /\ hub_pc' # "cycle") =>
          LET n == Len(ALL_STATES)
              Pos(x) == CHOOSE i \in 1..n : ALL_STATES[i] = x
              After(x) == ALL_STATES[(Pos(x) % n) + 1]
              sel == batch_states \o batch_states'
          IN /\ Len(batch_states') = STATES_PER_CYCLE
             /\ batch_states'[1] = IF batch_states = <<>> THEN ALL_STATES[1]
                                   ELSE After(batch_states[Len(batch_states)])
             /\ \A i \in 1..(STATES_PER_CYCLE - 1) :
                   batch_states'[i + 1] = After(batch_states'[i])
             /\ \A i, j \in 1..Len(sel) :
                   (i < j /\ sel[i] = sel[j] /\ \A k \in (i + 1)..(j - 1) : sel[k] # sel[i]) =>
                       /\ j - i = n
                       /\ {sel[k] : k \in (i + 1)..(j - 1)} = States \ {sel[i]}]_vars

\* the second batch has been selected: it starts where the first stopped and
\* wraps round to the head of ALL_STATES
C29_Witness ==
    /\ hub_pc = "cycle_log"
    /\ puts = STATES_PER_CYCLE
    /\ Len(batch_states) = STATES_PER_CYCLE
    /\ batch_states[1] = ALL_STATES[STATES_PER_CYCLE + 1]
    /\ batch_states[STATES_PER_CYCLE] = ALL_STATES[((2 * STATES_PER_CYCLE - 1) % Len(ALL_STATES)) + 1]
    /\ Len(ALL_STATES) > STATES_PER_CYCLE

\* C30 as stated: while a /cache/ru handler holds a reference to a combo's
\* live per-state map and has not finished flattening it, no step of another
\* thread inserts or replaces a key of that map.
C30_NoPublishDuringTraversal ==
    [][(rpc = "flatten" /\ rresp[2]) =>
          cache_by_combo'[combo_key("P", "G")].states
              = cache_by_combo[combo_key("P", "G")].states]_vars

\* C31: the end-of-cycle snapshot is taken at a quiescent point. From the
\* return of q.join() until _snapshot_save has returned (its log line
\* included), every item put in the cycle has been marked done, the queue is
\* empty and every worker is outside _fetch_state, blocked in q.get() or
\* ended: no worker reads or changes the cache or the stats meanwhile.
C31_QuiescentSnapshot ==
    hub_pc \in {"lce", "lce_l", "save", "save_l", "open", "dump", "save_log", "save_log_l"} =>
        /\ unfinished = 0
        /\ q = <<>>
        /\ \A w \in Workers : wpc[w] \in {"get", "dead"}

\* the snapshot of a cycle in which a worker fetched and stored is being
\* serialised
C31_Witness ==
    /\ hub_pc = "dump"
    /\ puts >= 2
    /\ upstream_calls >= 1
    /\ \E usps \in States : Entry(usps) # NoEntry

\* C32: only the owner releases a guard. A _fetch_state call that finds its
\* key in the in-flight set returns at once and leaves the set as it is, and
\* a key leaves the set only by the finally block of the call that installed
\* it; so while the owner is inside _fetch_state its key stays in the set.
C32_OnlyOwnerReleases ==
    [][/\ \A w \in Workers :
             (wpc[w] = "guard_l" /\ KeyOf(w) \in inflight /\ wpc'[w] # "guard_l") =>
                 /\ inflight' = inflight
                 /\ wpc'[w] = "task_done"
       /\ \A k \in inflight \ inflight' :
             \E w \in Workers :
                 /\ wpc[w] = "fin_l" /\ KeyOf(w) = k
                 /\ wpc'[w] = "task_done"
       /\ \A w \in Workers :
             (wpc[w] \in OwnerPcs /\ wpc'[w] \in OwnerPcs) => KeyOf(w) \in inflight'
      ]_vars

\* a second call for the key has been turned away and has ended, and the
\* owner, still before its request, holds the guard
C32_Witness ==
    \E w1, w2 \in Workers :
        /\ w1 # w2
        /\ wpc[w1] \in {"sr", "sr_l", "sr_cmp", "request"}
        /\ wfound[w2] = w1
        /\ wpc[w2] = "get"
        /\ KeyOf(w1) \in inflight

\* C33: no deadlock on the store lock. No thread asks for _cache_lock while
\* it holds it (log, _should_refetch, _ensure_combo_bucket and
\* _get_prev_vote_county are called outside every locked section); whoever
\* holds the lock is inside one of its locked sections and can take its next
\* step; and that step, by whatever path it leaves the section, frees the
\* lock. So a thread waiting for the lock is never waiting for itself nor for
\* a holder that cannot go on.
C33_NoSelfDeadlock ==
    /\ [](/\ \A w \in Workers :
                /\ wpc[w] \in WLockSites => cache_lock # W(w)
                /\ cache_lock = W(w) =>
                      /\ wpc[w] \in {s \o "_l" : s \in WLockSites}
                      /\ ENABLED (WorkerStep(w) \/ DecoderStep(w))
          /\ hub_pc \in HubLockSites => cache_lock # Hub
          /\ cache_lock = Hub =>
                /\ hub_pc \in {s \o "_l" : s \in HubLockSites}
                /\ ENABLED (HubStep(MaxReaderPuts) \/ HubLoadStep)
          /\ rpc = "idle" => cache_lock # Reader
          /\ cache_lock = Reader => (rpc = "locked" /\ ENABLED ReaderStep))
    /\ [][/\ \A w \in Workers : (cache_lock = W(w) /\ wpc'[w] # wpc[w]) => cache_lock' = Free
          /\ (cache_lock = Hub /\ hub_pc' # hub_pc) => cache_lock' = Free
          /\ (cache_lock = Reader /\ rpc' # rpc) => cache_lock' = Free
         ]_vars

\* a worker is about to call log() after its locked section of the store,
\* and has to wait: a request handler is inside its own locked section
C33_Witness ==
    \E w \in Workers :
        /\ wpc[w] = "log"
        /\ wpath[w] = "ok"
        /\ cache_lock = Reader
        /\ rkind = "cache_ru"

\* C34: the counters agree. From a cold store, in every state the global
\* errors counter equals the sum over the keys of their err counts, and the
\* sum over the keys of their ok counts is at most upstream_calls.
C34_CountersAgree ==
    LET Sum(field) ==
            LET F[S \in SUBSET DOMAIN per_combo_state] ==
                    IF S = {} THEN 0
                    ELSE LET k == CHOOSE y \in S : TRUE
                         IN Get(per_combo_state[k], field, 0) + F[S \ {k}]
            IN F[DOMAIN per_combo_state]
    IN /\ errors = Sum("err")
       /\ Sum("ok") <= upstream_calls

\* one key has failed with an HTTP status and another has been fetched: one
\* error, one success, two responses counted
C34_Witness ==
    /\ errors = 1
    /\ upstream_calls = 2
    /\ \E k1, k2 \in DOMAIN per_combo_state :
          /\ k1 # k2
          /\ Get(per_combo_state[k1], "err", 0) = 1
          /\ Get(per_combo_state[k2], "ok", 0) = 1

\* C35: with BACKOFF_MIN <= BACKOFF_MAX, the supervisor's backoff lies in
\* [BACKOFF_MIN, BACKOFF_MAX] in every state, whatever the probes gave.
C35_BackoffInRange ==
    BACKOFF_MIN <= BACKOFF_MAX => (BACKOFF_MIN <= backoff /\ backoff <= BACKOFF_MAX)

\* the doubling after a relaunch was cut by BACKOFF_MAX, and the hub has
\* been found down and then up
C35_Witness ==
    /\ 2 * BACKOFF_MIN > BACKOFF_MAX
    /\ waits # <<>>
    /\ sup_pc = "sleep"
    /\ backoff = BACKOFF_MAX
    /\ \E i, j \in 1..Len(probes) : i < j /\ ~probes[i] /\ probes[j]

\* C36 as stated: when the decoder has gone through a payload, every
\* candidate whose VoteCount is not an integer (empty ones included) carries
\* the votes cached for the same combo, state, unit and party if the cache
\* holds such a candidate, and 0 otherwise; and the unit's total is the sum
\* of its candidates' votes.
C36_NonIntegerUsesCached ==
    \A w \in Workers :
        wpc[w] \in {"ensure", "ensure_l"} =>
            LET cs == Candidates(wresp[w].text)
                unit == wparsed[w].counties[UnitFips]
                usps == witem[w][1]
                cached ==
                    IF /\ ComboOf(w) \in DOMAIN cache_by_combo
                       /\ usps \in DOMAIN cache_by_combo[ComboOf(w)].states
                       /\ UnitFips \in DOMAIN cache_by_combo[ComboOf(w)].states[usps].counties
                    THEN cache_by_combo[ComboOf(w)].states[usps].counties[UnitFips].candidates
                    ELSE <<>>
                SumVotes[i \in 0..Len(cs)] ==
                    IF i = 0 THEN 0 ELSE SumVotes[i - 1] + unit.candidates[i].votes
            IN /\ Len(unit.candidates) = Len(cs)
               /\ \A i \in 1..Len(cs) :
                     cs[i].VoteCount \notin IntLiterals =>
                         IF \E j \in 1..Len(cached) : cached[j].party = cs[i].Party
                         THEN \E j \in 1..Len(cached) :
                                 /\ cached[j].party = cs[i].Party
                                 /\ unit.candidates[i].votes = cached[j].votes
                         ELSE unit.candidates[i].votes = 0
               /\ unit.total = SumVotes[Len(cs)]

\* C36 amended: a VoteCount that is present, not empty and no integer gives
\* the candidate the votes cached for the same combo, state, unit and party
\* if the cache holds such a candidate, and 0 otherwise; an empty VoteCount
\* is read as 0, whatever the cache holds, and an integer as itself; the
\* unit's total is the sum of its candidates' votes.
C36_NonNumericUsesCached ==
    \A w \in Workers :
        wpc[w] \in {"ensure", "ensure_l"} =>
            LET cs == Candidates(wresp[w].text)
                unit == wparsed[w].counties[UnitFips]
                usps == witem[w][1]
                cached ==
                    IF /\ ComboOf(w) \in DOMAIN cache_by_combo
                       /\ usps \in DOMAIN cache_by_combo[ComboOf(w)].states
                       /\ UnitFips \in DOMAIN cache_by_combo[ComboOf(w)].states[usps].counties
                    THEN cache_by_combo[ComboOf(w)].states[usps].counties[UnitFips].candidates
                    ELSE <<>>
                SumVotes[i \in 0..Len(cs)] ==
                    IF i = 0 THEN 0 ELSE SumVotes[i - 1] + unit.candidates[i].votes
            IN /\ Len(unit.candidates) = Len(cs)
               /\ \A i \in 1..Len(cs) :
                     IF cs[i].VoteCount = "" THEN unit.candidates[i].votes = 0
                     ELSE IF cs[i].VoteCount \in IntLiterals
                     THEN unit.candidates[i].votes = py_int(cs[i].VoteCount)
                     ELSE IF \E j \in 1..Len(cached) : cached[j].party = cs[i].Party
                     THEN \E j \in 1..Len(cached) :
                             /\ cached[j].party = cs[i].Party
                             /\ unit.candidates[i].votes = cached[j].votes
                     ELSE unit.candidates[i].votes = 0
               /\ unit.total = SumVotes[Len(cs)]

\* a payload whose first candidate has VoteCount "N/A" has been decoded while
\* the cache held 1 vote for that party in that unit: the candidate carries
\* 1 and the unit's total is 3
C36_Witness ==
    \E w \in Workers :
        /\ wpc[w] = "ensure"
        /\ wresp[w].text = "<xml2>"
        /\ Entry(witem[w][1]) # NoEntry
        /\ Entry(witem[w][1]).counties[UnitFips].candidates[1] = [party |-> "REP", votes |-> 1]
        /\ wparsed[w].counties[UnitFips].candidates[1] = [party |-> "REP", votes |-> 1]
        /\ wparsed[w].counties[UnitFips].total = 3

\* C37: in the districts feed, a ReportingUnit whose RaceCallStatus is
\* "Called" carries Winner="X" on exactly one candidate, whose numeric vote
\* count is strictly above every other candidate's; a unit with another
\* status carries Winner="X" on no candidate; and a unit whose first place
\* is tied is not "Called".
C37_WinnerIffCalled ==
    (sim_pc = "done" /\ sim_out.fn = "reporting_unit") =>
        LET votes == sim_in.votes
        IN /\ IF sim_out.RaceCallStatus = "Called"
              THEN \E i \in 1..Len(votes) :
                      /\ sim_out.Winner = {i}
                      /\ \A j \in (1..Len(votes)) \ {i} : votes[j] < votes[i]
              ELSE sim_out.Winner = {}
           /\ (\E i, j \in 1..Len(votes) :
                  /\ i # j
                  /\ votes[i] = votes[j]
                  /\ \A k \in 1..Len(votes) : votes[k] <= votes[i])
              => sim_out.RaceCallStatus # "Called"

\* a unit at 40 percent in whose second candidate leads by far is called
\* for that candidate
C37_Witness ==
    /\ sim_pc = "done"
    /\ sim_in = [fn |-> "reporting_unit", percent_in |-> 40, votes |-> <<1, 100, 0>>]
    /\ sim_out.RaceCallStatus = "Called"
    /\ sim_out.Winner = {2}

\* C38: _scale_votes_to_total(votes, total), for a non-empty list of
\* non-negative votes and total > 0, returns a list of the same length of
\* non-negative integers whose sum is total.
C38_ScaledSumIsTotal ==
    (sim_pc = "done" /\ sim_out.fn = "scale" /\ sim_in.votes # <<>> /\ sim_in.total > 0) =>
        /\ Len(sim_out.votes) = Len(sim_in.votes)
        /\ \A i \in 1..Len(sim_out.votes) : sim_out.votes[i] >= 0
        /\ SumSeq(sim_out.votes) = sim_in.total

\* C39: in src/api/api.py, the slate of gen_cd_candidates and of
\* gen_statewide_candidates has one REP and one DEM among its first two
\* candidates, whatever the seed.
C39_TopTwoRepDem ==
    (sim_pc = "done" /\ sim_out.fn \in {"gen_cd_candidates", "gen_statewide_candidates"}) =>
        {sim_out.slate[1], sim_out.slate[2]} = {"REP", "DEM"}

====
